---- MODULE Spec2Model ----
(***************************************************************************)
(* Model of the CPAP waveform-to-metrics analysis pipeline                 *)
(* (cpap_analysis.py) and of its callers.                                  *)
(*                                                                         *)
(* Numbers are fixed point integers:                                       *)
(*   time      : ticks of 0.5 ms            (TicksPerSec ticks per second) *)
(*   pressure  : milli-pascal                                              *)
(*   flow rate : 1e-5 m^3/s, or NaN                                        *)
(*   volume    : see calculate_leakage                                     *)
(* A float that may be NaN is a record [nan, v]; v = 0 when nan.           *)
(***************************************************************************)
EXTENDS Integers, Sequences, FiniteSets, TLC

VARIABLES pc, caller, data, flow_rate, filtered_flow_rate, peak_times,
          apneas, leakage, metrics, log,
          file,      \* the lines of the patient file after its header
          now,       \* table now: the current row of each patient
          entries,   \* table entries: one row per upload
          request,   \* the request the server handled last
          response,  \* its answer
          loggers,   \* logging's registry: the handlers of each named logger
          patient_info,  \* patient GUI: the dictionary patient_info
          widgets,       \* patient GUI: the states of its widgets
          root,          \* patient GUI: the window and its after() callbacks
          last           \* patient GUI: what the last callback did

\* the window of the patient GUI
window == <<patient_info, widgets, root, last>>

\* what the analysis of a recording leaves alone
outside == <<file, now, entries, request, response, loggers, window>>

vars == <<pc, caller, data, flow_rate, filtered_flow_rate, peak_times,
          apneas, leakage, metrics, log, outside>>

NoRequest == [route |-> "none"]

NoResponse == [status |-> 0]

\* the patients whose files are analysed: filename[12:-4]
Patients == {"patient_01", "patient_02"}

NoHandlers == [p \in Patients |-> 0]

\* no window
WindowIdle ==
    /\ patient_info = <<>>
    /\ widgets = <<>>
    /\ root = <<>>
    /\ last = <<>>

\* no file read, empty tables, no request handled
OutsideIdle ==
    /\ file = <<>>
    /\ now = <<>>
    /\ entries = <<>>
    /\ request = NoRequest
    /\ response = NoResponse
    /\ loggers = NoHandlers
    /\ WindowIdle

\* ------------------------------------------------------------ numbers

\* two ticks per millisecond
TicksPerSec == 2 * 1000

NaN == [nan |-> TRUE, v |-> 0]

Num(x) == [nan |-> FALSE, v |-> x]

IsNaN(q) == q.nan

Neg(q) == IF q.nan THEN NaN ELSE Num(0 - q.v)

Abs(x) == IF x < 0 THEN 0 - x ELSE x

Max(a, b) == IF a >= b THEN a ELSE b

RECURSIVE SqrtSearch(_, _, _)
SqrtSearch(n, lo, hi) ==
    IF lo >= hi THEN lo
    ELSE LET mid == (lo + hi + 1) \div 2
         IN  IF mid * mid <= n THEN SqrtSearch(n, mid, hi)
                               ELSE SqrtSearch(n, lo, mid - 1)

\* floor of the square root of n >= 0
ISqrt(n) == SqrtSearch(n, 0, IF n < 46340 THEN n ELSE 46340)

\* x / d rounded to the nearest integer, ties to even (d > 0)
RoundHalfEven(x, d) ==
    LET fl == x \div d
        r2 == 2 * (x - fl * d)
    IN  IF r2 < d THEN fl
        ELSE IF r2 > d THEN fl + 1
        ELSE IF fl % 2 = 0 THEN fl ELSE fl + 1

\* s[lo] + ... + s[hi]
RECURSIVE SumRange(_, _, _)
SumRange(s, lo, hi) ==
    IF lo > hi THEN 0
    ELSE IF lo = hi THEN s[lo]
    ELSE LET mid == (lo + hi) \div 2
         IN  SumRange(s, lo, mid) + SumRange(s, mid + 1, hi)

SumSeq(s) == SumRange(s, 1, Len(s))

\* np.diff
Diff(s) == [i \in 1..(Len(s) - 1) |-> s[i + 1] - s[i]]

Column(m, c) == [i \in 1..Len(m) |-> m[i][c]]

\* ------------------------------------------------------------ constants

\* moist air density, g/m^3 (1.199 kg/m^3)
moist_air_density == 1199

\* tube diameters, mm
d1 == 15

d2 == 12

\* calibration of the pressure sensor: 25.4 cmH2O (in 1e-3 cmH2O) over
\* the ADC counts 1638 .. 14745
SpanCmH2O == 25400

AdcLow == 1638

AdcHigh == 14745

\* A1 = pi * (d1/2)^2 in 1e-8 m^2, with pi = 355/113
A1 == (355 * d1 * d1 * 100) \div (113 * 4)

\* ------------------------------------------------------------ flow_vs_time

\* ADC count to pressure in mPa: to 1e-3 cmH2O, then times 98.0665
AdcToPa(adc) ==
    LET cmH2O == (SpanCmH2O * (adc - AdcLow)) \div (AdcHigh - AdcLow)
    IN  (cmH2O * 196133) \div 2000

p1_ins_Pa(row) == AdcToPa(row[3])

p1_exp_Pa(row) == AdcToPa(row[4])

p2_Pa(row) == AdcToPa(row[2])

\* 2 * (p1 - p2) in mPa, p1 the upstream pressure
numerator(row) == 2 * (Max(p1_ins_Pa(row), p1_exp_Pa(row)) - p2_Pa(row))

\* A1 * sqrt(numerator / denominator), where
\* denominator = rho * ((A1/A2)^2 - 1) = rho * (d1^4 - d2^4) / d2^4.
\* The radicand is taken in 1e-4 m^2/s^2, its root in cm/s.
VenturiMagnitude(num) ==
    IF num < 0 THEN NaN
    ELSE LET d2_4 == d2 * d2 * d2 * d2
             d1_4 == d1 * d1 * d1 * d1
             radicand == (num * d2_4) \div
                            ((moist_air_density * (d1_4 - d2_4)) \div 10000)
         IN  Num((A1 * ISqrt(radicand)) \div 100000)

FlowOfRowNoFlip(row) == VenturiMagnitude(numerator(row))

\* the root with a negative radicand clamped to zero flow
VenturiMagnitudeClamped(num) ==
    IF num < 0 THEN Num(0) ELSE VenturiMagnitude(num)

\* one row of the loop with the clamped root
FlowOfRowClamped(row) ==
    IF p1_exp_Pa(row) > p1_ins_Pa(row)
    THEN Neg(VenturiMagnitudeClamped(numerator(row)))
    ELSE VenturiMagnitudeClamped(numerator(row))

\* one row of the loop: the magnitude, negated when expiration dominates
FlowOfRow(row) ==
    IF p1_exp_Pa(row) > p1_ins_Pa(row)
    THEN Neg(VenturiMagnitude(numerator(row)))
    ELSE VenturiMagnitude(numerator(row))

flow_vs_time(d) == [i \in 1..Len(d) |-> <<d[i][1], FlowOfRow(d[i])>>]

\* ------------------------------------------------------------ apnea_events

\* seconds between breaths above which an interval is an apnea event
ApneaThreshold == 10

CountAbove(intervals, limit) ==
    SumSeq([i \in 1..Len(intervals) |-> IF intervals[i] > limit THEN 1 ELSE 0])

apnea_events_ge(pt) ==
    SumSeq([i \in 1..(Len(pt) - 1) |->
               IF pt[i + 1] - pt[i] >= ApneaThreshold * TicksPerSec
               THEN 1 ELSE 0])

apnea_events_diff2(pt) ==
    CountAbove(Diff(Diff(pt)), ApneaThreshold * TicksPerSec)

\* a count of the breaths next to a long interval, two for each interval
apnea_events_breaths(pt) ==
    2 * CountAbove(Diff(pt), ApneaThreshold * TicksPerSec)

\* np.sum(np.diff(peak_times) > 10)
apnea_events(pt) == CountAbove(Diff(pt), ApneaThreshold * TicksPerSec)

\* ------------------------------------------------------------ calculate_leakage

\* np.trapz(q, x=time): the sum of (t[i+1] - t[i]) * (q[i+1] + q[i]) / 2,
\* in units of 2.5e-9 m^3 (half a tick times 1e-5 m^3/s), NaN as soon as one
\* of its terms is
Trapz(q, time) ==
    IF Len(q) >= 2 /\ \E i \in 1..Len(q) : IsNaN(q[i]) THEN NaN
    ELSE Num(SumSeq([i \in 1..(Len(q) - 1) |->
                       (time[i + 1] - time[i]) * (q[i + 1].v + q[i].v)]))

\* m^3 to liters (times 1000): from units of 2.5e-9 m^3 to units of 0.5e-6 L
LitersOfM3(x) == IF IsNaN(x) THEN NaN ELSE Num(x.v * 5)

WarnNegative == "WARNING Negative leakage detected."

calculate_leakage_abs(fr) ==
    LET l == LitersOfM3(Trapz(Column(fr, 2), Column(fr, 1)))
    IN  IF IsNaN(l) THEN NaN ELSE Num(Abs(l.v))

calculate_leakage_clamped(fr) ==
    LET l == LitersOfM3(Trapz(Column(fr, 2), Column(fr, 1)))
    IN  IF IsNaN(l) THEN NaN ELSE Num(Max(l.v, 0))

\* the value calculate_leakage returns, for a series of at least one sample
calculate_leakage(fr) == LitersOfM3(Trapz(Column(fr, 2), Column(fr, 1)))

\* what calculate_leakage logs for the value it returns
LeakageLog(l) == IF ~IsNaN(l) /\ l.v < 0 THEN <<WarnNegative>> ELSE <<>>

\* ------------------------------------------------------------ calculate_metrics

\* round(x, 3) of a time in ticks: milliseconds
RoundDuration(duration) == RoundHalfEven(duration, TicksPerSec \div 1000)

\* len(peak_times) / (duration / 60) for a duration in ticks, rounded to three
\* decimals: thousandths of a breath per minute
RatePerMinute(n, duration) ==
    RoundHalfEven(n * 60 * TicksPerSec * 1000, duration)

breath_rate_bpm_per_second(n, duration) ==
    IF duration > 0 THEN RoundHalfEven(n * TicksPerSec * 1000, duration) ELSE 0

breath_rate_bpm_nonzero(n, duration) ==
    IF duration > 0 THEN RatePerMinute(n, duration)
    ELSE IF duration < 0 THEN 0 - RatePerMinute(n, 0 - duration)
    ELSE 0

\* round(len(peak_times) / (duration / 60) if duration > 0 else 0, 3)
breath_rate_bpm(n, duration) ==
    IF duration > 0 THEN RatePerMinute(n, duration) ELSE 0

\* round(leakage, 3) of a volume in units of 0.5e-6 L: milliliters, NaN kept
RoundLeakage(l) == IF IsNaN(l) THEN NaN ELSE Num(RoundHalfEven(l.v, 2000))

\* time[-1] - time[0]
Duration(fr) == fr[Len(fr)][1] - fr[1][1]

\* the dictionary calculate_metrics builds, for a series of at least one sample
calculate_metrics(fr, pt, ap, lk) ==
    [duration |-> RoundDuration(Duration(fr)),
     breaths |-> Len(pt),
     breath_rate_bpm |-> breath_rate_bpm(Len(pt), Duration(fr)),
     breath_times |-> pt,
     apnea_count |-> ap,
     leakage |-> RoundLeakage(lk)]

\* ------------------------------------------------------------ detect_peak_times

\* cutoff frequency of the lowpass filter, Hz
cutoff_freq == 2

\* minimum height of a peak: 0.00009 m^3/s in units of 1e-6 m^3/s
height == 90

\* minimum number of samples between peaks
distance == 80

\* fixed point scale of the filter design
Scale == 10 * 1000

\* sum of np.diff(time): np.mean(time_diffs) is TimeSpan / (n - 1)
TimeSpan(time) == SumSeq(Diff(time))

DesignFailsUpperOnly(time) ==
    \/ Len(time) < 2
    \/ 2 * cutoff_freq * SumSeq(Diff(time)) >= (Len(time) - 1) * TicksPerSec

\* Whether iirfilter rejects the design.  Wn = 2 * cutoff_freq / fs with
\* fs = 1 / mean(time_diffs) must satisfy 0 < Wn < 1; the mean of no
\* difference (one sample) is NaN, for which no filter can be designed.
DesignFails(time) ==
    \/ Len(time) < 2
    \/ TimeSpan(time) <= 0
    \/ 2 * cutoff_freq * TimeSpan(time) >= (Len(time) - 1) * TicksPerSec

\* tan(x) for x scaled by Scale: x + x^3/3 + 2x^5/15 + 17x^7/315
TanScaled(x) ==
    LET x2 == (x * x) \div Scale
        x3 == (x2 * x) \div Scale
        x5 == (x3 * x2) \div Scale
        x7 == (x5 * x2) \div Scale
    IN  x + x3 \div 3 + (2 * x5) \div 15 + (17 * x7) \div 315

\* K = tan(pi * Wn / 2) = tan(pi * cutoff_freq / fs), scaled by Scale
WarpedK(time) ==
    TanScaled((3142 * cutoff_freq * TimeSpan(time)) \div
                 (((Len(time) - 1) * TicksPerSec) \div 10))

\* The second order Butterworth lowpass section for K, coefficients scaled by
\* Scale: b = b0 * (1, 2, 1), a = (1, a1, a2).
Sos(time) ==
    LET K == WarpedK(time)
        K2 == (K * K) \div Scale
        rt2K == (14142 * K) \div Scale
        norm == Scale + rt2K + K2
    IN  [b0 |-> (K2 * Scale) \div norm,
         a1 |-> (2 * (K2 - Scale) * Scale) \div norm,
         a2 |-> ((Scale - rt2K + K2) * Scale) \div norm]

\* x of a flow value in the units of the filtered signal, 1e-6 m^3/s
FilterInput(q) == 10 * q.v

\* One step of sosfilt: st holds the two last outputs y1 and y2, whether a NaN
\* has entered the filter (every later output is then NaN), and the outputs
\* so far
SosfiltStep(sos, q, st, i) ==
    IF st.bad \/ IsNaN(q[i])
    THEN [y1 |-> 0, y2 |-> 0, bad |-> TRUE, out |-> Append(st.out, NaN)]
    ELSE LET x0 == FilterInput(q[i])
             x1 == IF i >= 2 THEN FilterInput(q[i - 1]) ELSE 0
             x2 == IF i >= 3 THEN FilterInput(q[i - 2]) ELSE 0
             y == (sos.b0 * (x0 + 2 * x1 + x2) - sos.a1 * st.y1
                     - sos.a2 * st.y2) \div Scale
         IN  [y1 |-> y, y2 |-> st.y1, bad |-> FALSE,
              out |-> Append(st.out, Num(y))]

\* the steps lo .. hi, in order
RECURSIVE SosfiltRange(_, _, _, _, _)
SosfiltRange(sos, q, st, lo, hi) ==
    IF lo > hi THEN st
    ELSE IF lo = hi THEN SosfiltStep(sos, q, st, lo)
    ELSE LET mid == (lo + hi) \div 2
             first == SosfiltRange(sos, q, st, lo, mid)
         IN  IF Len(first.out) >= mid
             THEN SosfiltRange(sos, q, first, mid + 1, hi)
             ELSE first

sosfilt(sos, q) ==
    SosfiltRange(sos, q, [y1 |-> 0, y2 |-> 0, bad |-> FALSE, out |-> <<>>],
                 1, Len(q)).out

\* first index in lo .. hi whose value differs from v, hi + 1 when none does
RECURSIVE FirstDifferent(_, _, _, _)
FirstDifferent(x, v, lo, hi) ==
    IF lo > hi THEN hi + 1
    ELSE IF lo = hi THEN (IF x[lo] # v THEN lo ELSE hi + 1)
    ELSE LET mid == (lo + hi) \div 2
             l == FirstDifferent(x, v, lo, mid)
         IN  IF l <= mid THEN l ELSE FirstDifferent(x, v, mid + 1, hi)

\* last index of the run of equal values that starts at i, the last sample
\* excluded
RunEnd(x, i) == FirstDifferent(x, x[i], i + 1, Len(x) - 1) - 1

\* i starts a plateau that is a local maximum: a rise before it, a fall
\* after it (the first and the last sample are never peaks)
IsPeakStart(x, i) ==
    /\ i >= 2
    /\ i < Len(x)
    /\ x[i - 1] < x[i]
    /\ x[RunEnd(x, i) + 1] < x[i]

\* _local_maxima_1d: the midpoints of the plateaus
LocalMaxima(x) ==
    {(i + RunEnd(x, i)) \div 2 : i \in {j \in 2..(Len(x) - 1) : IsPeakStart(x, j)}}

\* the peak among `left` that _select_by_peak_distance handles next: the
\* highest one, the later one of two equal peaks
NextByPriority(x, left) ==
    CHOOSE j \in left : \A k \in left :
        \/ x[k] < x[j]
        \/ (x[k] = x[j] /\ k <= j)

\* _select_by_peak_distance: from the highest peak down, every peak still
\* kept removes the peaks less than `distance` samples from it
RECURSIVE KeepByDistance(_, _, _)
KeepByDistance(x, left, keep) ==
    IF left = {} THEN keep
    ELSE LET j == NextByPriority(x, left)
         IN  IF j \notin keep
             THEN KeepByDistance(x, left \ {j}, keep)
             ELSE KeepByDistance(x, left \ {j},
                     {k \in keep : k = j \/ Abs(k - j) >= distance})

SelectByDistance(x, peaks) == KeepByDistance(x, peaks, peaks)

\* the elements of a set of indices in increasing order
RECURSIVE SortedSeq(_)
SortedSeq(S) ==
    IF S = {} THEN <<>>
    ELSE LET m == CHOOSE m \in S : \A k \in S : m <= k
         IN  <<m>> \o SortedSeq(S \ {m})

\* last index in lo .. hi whose value is above v, lo - 1 when none is
RECURSIVE LastAbove(_, _, _, _)
LastAbove(x, v, lo, hi) ==
    IF lo > hi THEN lo - 1
    ELSE IF lo = hi THEN (IF x[lo] > v THEN lo ELSE lo - 1)
    ELSE LET mid == (lo + hi) \div 2
             r == LastAbove(x, v, mid + 1, hi)
         IN  IF r > mid THEN r ELSE LastAbove(x, v, lo, mid)

\* first index in lo .. hi whose value is above v, hi + 1 when none is
RECURSIVE FirstAbove(_, _, _, _)
FirstAbove(x, v, lo, hi) ==
    IF lo > hi THEN hi + 1
    ELSE IF lo = hi THEN (IF x[lo] > v THEN lo ELSE hi + 1)
    ELSE LET mid == (lo + hi) \div 2
             l == FirstAbove(x, v, lo, mid)
         IN  IF l <= mid THEN l ELSE FirstAbove(x, v, mid + 1, hi)

\* lowest of x[lo] .. x[hi], lo <= hi
RECURSIVE MinRange(_, _, _)
MinRange(x, lo, hi) ==
    IF lo = hi THEN x[lo]
    ELSE LET mid == (lo + hi) \div 2
             l == MinRange(x, lo, mid)
             r == MinRange(x, mid + 1, hi)
         IN  IF l <= r THEN l ELSE r

\* peak_prominences: the peak above the higher of its two bases, each base
\* the lowest value between the peak and the nearest higher sample (or the
\* end of the signal) on that side
Prominence(x, p) ==
    LET left_min == MinRange(x, LastAbove(x, x[p], 1, p) + 1, p)
        right_min == MinRange(x, p, FirstAbove(x, x[p], p, Len(x)) - 1)
    IN  x[p] - Max(left_min, right_min)

\* np.std(x) ** 2, rounded down
Variance(x) ==
    LET mean == SumSeq(x) \div Len(x)
    IN  SumSeq([i \in 1..Len(x) |-> (x[i] - mean) * (x[i] - mean)]) \div Len(x)

\* prominence >= np.std(x) * 0.5
Prominent(x, p) == 4 * Prominence(x, p) * Prominence(x, p) >= Variance(x)

\* find_peaks(x, height, distance, prominence): indices (from 1) of the
\* accepted peaks, in increasing order.  With a NaN in x the prominence limit
\* is NaN and no peak passes it.
find_peaks(y) ==
    IF \E i \in 1..Len(y) : IsNaN(y[i]) THEN <<>>
    ELSE LET x == [i \in 1..Len(y) |-> y[i].v]
             high == {p \in LocalMaxima(x) : x[p] >= height}
             apart == SelectByDistance(x, high)
         IN  SortedSeq({p \in apart : Prominent(x, p)})

PeakTimesUnordered(time, peaks) ==
    [k \in 1..Len(peaks) |-> time[peaks[Len(peaks) + 1 - k]]]

\* time[peaks]
PeakTimesAt(time, peaks) == [k \in 1..Len(peaks) |-> time[peaks[k]]]

\* detect_peak_times on a series it accepts: [peak_times, filtered_flow_rate]
detect_peak_times(fr) ==
    LET filtered == sosfilt(Sos(Column(fr, 1)), Column(fr, 2))
    IN  [peak_times |-> PeakTimesAt(Column(fr, 1), find_peaks(filtered)),
         filtered_flow_rate |-> filtered]

\* detect_peak_times raises: IndexError for an empty array, ValueError from
\* the filter design
DetectRaises(fr) == Len(fr) = 0 \/ DesignFails(Column(fr, 1))

\* ------------------------------------------------------------ text to number

\* A text is the sequence of its characters.  A Python float is a record
\* [k, v]: k is "fin", "nan", "inf" or "-inf"; v is the value in tenths when
\* k = "fin" and 0 otherwise.
Digits == {"0", "1", "2", "3", "4", "5", "6", "7", "8", "9"}

DigitVal(c) ==
    CASE c = "0" -> 0 [] c = "1" -> 1 [] c = "2" -> 2 [] c = "3" -> 3
      [] c = "4" -> 4 [] c = "5" -> 5 [] c = "6" -> 6 [] c = "7" -> 7
      [] c = "8" -> 8 [] c = "9" -> 9

Whitespace == {" ", "\t"}

Fin(v) == [k |-> "fin", v |-> v]

FloatNaN == [k |-> "nan", v |-> 0]

FloatInf == [k |-> "inf", v |-> 0]

FloatNegInf == [k |-> "-inf", v |-> 0]

\* tenths in one unit
Tenths == 2 * 5

\* str.strip(): leading and trailing whitespace removed
RECURSIVE LStrip(_)
LStrip(t) ==
    IF t # <<>> /\ Head(t) \in Whitespace THEN LStrip(Tail(t)) ELSE t

RECURSIVE RStrip(_)
RStrip(t) ==
    IF t # <<>> /\ t[Len(t)] \in Whitespace
    THEN RStrip(SubSeq(t, 1, Len(t) - 1)) ELSE t

Strip(t) == RStrip(LStrip(t))

AllDigits(t) == \A i \in 1..Len(t) : t[i] \in Digits

\* the number a sequence of digits writes
RECURSIVE DigitsValue(_)
DigitsValue(t) ==
    IF t = <<>> THEN 0
    ELSE 10 * DigitsValue(SubSeq(t, 1, Len(t) - 1)) + DigitVal(t[Len(t)])

HasSign(t) == t # <<>> /\ Head(t) \in {"+", "-"}

Unsigned(t) == IF HasSign(t) THEN Tail(t) ELSE t

Signed(t, v) == IF HasSign(t) /\ Head(t) = "-" THEN 0 - v ELSE v

ValueError == [ok |-> FALSE]

Parsed(x) == [ok |-> TRUE, x |-> x]

\* int(text): surrounding whitespace, an optional sign, decimal digits
ParseInt(text) ==
    LET t == Strip(text)
        u == Unsigned(t)
    IN  IF u # <<>> /\ AllDigits(u)
        THEN Parsed(Signed(t, DigitsValue(u)))
        ELSE ValueError

PointAt(u) ==
    IF \E i \in 1..Len(u) : u[i] = "."
    THEN CHOOSE i \in 1..Len(u) :
            u[i] = "." /\ \A j \in 1..(i - 1) : u[j] # "."
    ELSE Len(u) + 1

LowerCase(c) ==
    CASE c = "N" -> "n" [] c = "A" -> "a" [] c = "I" -> "i" [] c = "F" -> "f"
      [] OTHER -> c

Lower(u) == [i \in 1..Len(u) |-> LowerCase(u[i])]

\* float(text): surrounding whitespace, an optional sign, then nan, inf,
\* infinity, or digits with at most one point and at least one digit.  Texts
\* are written with at most one digit after the point, without exponent.
ParseFloat(text) ==
    LET t == Strip(text)
        u == Unsigned(t)
        whole == SubSeq(u, 1, PointAt(u) - 1)
        frac == SubSeq(u, PointAt(u) + 1, Len(u))
    IN  IF Lower(u) = <<"n", "a", "n">> THEN Parsed(FloatNaN)
        ELSE IF Lower(u) \in {<<"i", "n", "f">>,
                              <<"i", "n", "f", "i", "n", "i", "t", "y">>}
        THEN Parsed(IF HasSign(t) /\ Head(t) = "-"
                    THEN FloatNegInf ELSE FloatInf)
        ELSE IF /\ AllDigits(whole) /\ AllDigits(frac)
                /\ Len(whole) + Len(frac) > 0
                /\ Len(frac) <= 1
        THEN Parsed(Fin(Signed(t, Tenths * DigitsValue(whole)
                                  + DigitsValue(frac))))
        ELSE ValueError

\* ------------------------------------------------------------ data_acquisition

ErrInvalidInput == "ERROR Invalid Input"

RowParses(line) == \A i \in 1..Len(line) : ParseFloat(line[i]).ok

\* time_point_lst
RowValues(line) == [i \in 1..Len(line) |-> ParseFloat(line[i]).x]

\* np.isnan(time_point_arr).any()
RowHasNaN(line) == \E i \in 1..Len(line) : RowValues(line)[i].k = "nan"

\* the row reaches result.append
RowKept(line) == RowParses(line) /\ ~RowHasNaN(line)

\* result after the loop over the first n lines
RECURSIVE AcquiredRows(_, _)
AcquiredRows(lines, n) ==
    IF n = 0 THEN <<>>
    ELSE IF RowKept(lines[n])
         THEN Append(AcquiredRows(lines, n - 1), RowValues(lines[n]))
         ELSE AcquiredRows(lines, n - 1)

\* what the loop logs: one error per row it skips
RECURSIVE AcquisitionLog(_, _)
AcquisitionLog(lines, n) ==
    IF n = 0 THEN <<>>
    ELSE IF RowKept(lines[n])
         THEN AcquisitionLog(lines, n - 1)
         ELSE Append(AcquisitionLog(lines, n - 1), ErrInvalidInput)

\* np.array(result) is given rows of different lengths
Ragged(rows) == \E i, j \in 1..Len(rows) : Len(rows[i]) # Len(rows[j])

\* ------------------------------------------------------------ Python values

\* A value of a decoded JSON document or a parameter of a query is a record
\* tagged with its Python type.
PyNone == [t |-> "none"]

PyStr(s) == [t |-> "str", s |-> s]

PyInt(n) == [t |-> "int", n |-> n]

PyFloat(x) == [t |-> "float", x |-> x]

\* a dict: its keys in insertion order, and their values
PyDict(keys, vals) == [t |-> "dict", keys |-> keys, vals |-> vals]

PyList == [t |-> "list"]

\* the outcome of a call: a value returned or an exception raised
Return(val) == [exc |-> "none", val |-> val]

Raise(e) == [exc |-> e]

\* int(x)
int(x) ==
    CASE x.t = "int" -> Return(x.n)
      [] x.t = "str" ->
            IF ParseInt(x.s).ok THEN Return(ParseInt(x.s).x)
            ELSE Raise("ValueError")
      [] x.t = "float" ->
            IF x.x.k = "fin"
            THEN Return(IF x.x.v < 0 THEN 0 - ((0 - x.x.v) \div Tenths)
                        ELSE x.x.v \div Tenths)
            ELSE IF x.x.k = "nan" THEN Raise("ValueError")
            ELSE Raise("OverflowError")
      [] OTHER -> Raise("TypeError")

\* float(x)
float(x) ==
    CASE x.t = "float" -> Return(x.x)
      [] x.t = "int" -> Return(Fin(Tenths * x.n))
      [] x.t = "str" ->
            IF ParseFloat(x.s).ok THEN Return(ParseFloat(x.s).x)
            ELSE Raise("ValueError")
      [] OTHER -> Raise("TypeError")

Caught == {"ValueError", "TypeError"}

\* x >= 0 for a float: false for NaN
FloatNonNegative(x) == x.k = "inf" \/ (x.k = "fin" /\ x.v >= 0)

\* ------------------------------------------------------------ validators

Letters ==
    {"a", "b", "c", "d", "e", "f", "g", "h", "i", "j", "k", "l", "m", "n",
     "o", "p", "q", "r", "s", "t", "u", "v", "w", "x", "y", "z",
     "A", "B", "C", "D", "E", "F", "G", "H", "I", "J", "K", "L", "M", "N",
     "O", "P", "Q", "R", "S", "T", "U", "V", "W", "X", "Y", "Z"}

allowed_chars == Letters \cup {" ", "'", "-"}

\* bool(x) of `if name:`
Truthy(x) ==
    CASE x.t = "none" -> FALSE
      [] x.t = "str" -> x.s # <<>>
      [] x.t = "int" -> x.n # 0
      [] x.t = "float" -> ~(x.x.k = "fin" /\ x.x.v = 0)
      [] OTHER -> TRUE

EmptyName == PyStr(<<>>)

\* validate_name: the stripped name, "" for an invalid one; only a str has
\* strip()
validate_name(name) ==
    IF ~Truthy(name) THEN Return(EmptyName)
    ELSE IF name.t # "str" THEN Raise("AttributeError")
    ELSE IF \E i \in 1..Len(Strip(name.s)) :
               Strip(name.s)[i] \notin allowed_chars
    THEN Return(EmptyName)
    ELSE Return(PyStr(Strip(name.s)))

\* int(x) that is >= 0, else None: validate_mrn, validate_room_number,
\* validate_apnea_count
NonNegativeInt(x) ==
    LET r == int(x)
    IN  IF r.exc = "none"
        THEN (IF r.val >= 0 THEN Return(PyInt(r.val)) ELSE Return(PyNone))
        ELSE IF r.exc \in Caught THEN Return(PyNone)
        ELSE Raise(r.exc)

validate_mrn(mrn) == NonNegativeInt(mrn)

validate_room_number(room_number) == NonNegativeInt(room_number)

validate_apnea_count(apnea_count) == NonNegativeInt(apnea_count)

\* the operational range, cmH2O
MinPressure == 4

MaxPressure == 25

validate_cpap_pressure_exclusive(cpap_pressure) ==
    LET r == float(cpap_pressure)
    IN  IF /\ r.exc = "none"
           /\ r.val.k = "fin"
           /\ MinPressure * Tenths < r.val.v
           /\ r.val.v < MaxPressure * Tenths
        THEN Return(PyFloat(r.val))
        ELSE Return(PyNone)

\* validate_cpap_pressure: the float when 4 <= pressure <= 25; None when the
\* conversion raises, and None when the function ends without a return
validate_cpap_pressure(cpap_pressure) ==
    LET r == float(cpap_pressure)
    IN  IF /\ r.exc = "none"
           /\ r.val.k = "fin"
           /\ MinPressure * Tenths <= r.val.v
           /\ r.val.v <= MaxPressure * Tenths
        THEN Return(PyFloat(r.val))
        ELSE Return(PyNone)

validate_breath_rate(breath_rate) ==
    LET r == float(breath_rate)
    IN  IF r.exc = "none" /\ FloatNonNegative(r.val)
        THEN Return(PyFloat(r.val))
        ELSE Return(PyNone)

\* in_json[key] of a dict
Item(d, key) ==
    d.vals[CHOOSE i \in 1..Len(d.keys) : d.keys[i] = key]

SendCpapKeys == <<"room_number", "cpap">>

\* validate_send_cpap: list(in_json.keys()) is compared with the list
\* ["room_number", "cpap"], so in that order
validate_send_cpap(in_json) ==
    IF in_json.t # "dict" \/ in_json.keys # SendCpapKeys THEN FALSE
    ELSE IF Len(in_json.keys) # 2 THEN FALSE
    ELSE IF \/ Item(in_json, "room_number").t # "int"
            \/ Item(in_json, "cpap").t # "float"
    THEN FALSE
    ELSE TRUE

\* ------------------------------------------------------------ tables

\* A row of table now or entries; NULL is PyNone.  datetime is the number of
\* the upload that wrote the row.
Row(mrn, datetime, name, currcpap, br, apnea, plot, room_number) ==
    [mrn |-> mrn, datetime |-> datetime, name |-> name,
     currcpap |-> currcpap, br |-> br, apnea |-> apnea, plot |-> plot,
     room_number |-> room_number]

\* datetime.now() of a request: requests are told apart by the rows of
\* entries written before them
Clock(e) == PyInt(Len(e) + 1)

\* the rows of a table that satisfy a condition, as indices
RowsWithMrn(table, mrn) ==
    {i \in 1..Len(table) : mrn # PyNone /\ table[i].mrn = mrn}

RowsWithRoom(table, room_number) ==
    {i \in 1..Len(table) :
        room_number # PyNone /\ table[i].room_number = room_number}

\* a response: the status and the JSON body, or the exception that left the
\* handler
Json(status, body) == [status |-> status, body |-> body]

Unhandled(e) == [status |-> 500, raised |-> e]

EmptyBody == [k \in {} |-> PyNone]

Error(text) == [error |-> text]

\* a body that is plain text, not JSON
Plain(text) == [text |-> text]

\* the result of a handler: the response and the tables after it
Outcome(resp, n, e) == [response |-> resp, now |-> n, entries |-> e]

\* the first exception among the results of validators, in call order
FirstRaised(results) ==
    IF \E i \in 1..Len(results) : results[i].exc # "none"
    THEN results[CHOOSE i \in 1..Len(results) :
                    /\ results[i].exc # "none"
                    /\ \A j \in 1..(i - 1) : results[j].exc = "none"].exc
    ELSE "none"

\* ------------------------------------------------------------ check_exists

check_exists_swapped(req, n, e) ==
    LET mrn == validate_mrn(req.mrn)
        room_number == validate_room_number(req.room_number)
    IN  IF mrn.val = PyNone
        THEN Outcome(Json(419, Error("Invalid MRN")), n, e)
        ELSE IF room_number.val = PyNone
        THEN Outcome(Json(420, Error("Invalid room number")), n, e)
        ELSE IF RowsWithMrn(n, mrn.val) # {}
        THEN Outcome(Json(200, [exists |-> "room"]), n, e)
        ELSE IF RowsWithRoom(n, room_number.val) # {}
        THEN Outcome(Json(200, [exists |-> "mrn"]), n, e)
        ELSE Outcome(Json(200, EmptyBody), n, e)

check_exists(req, n, e) ==
    LET mrn == validate_mrn(req.mrn)
        room_number == validate_room_number(req.room_number)
        raised == FirstRaised(<<mrn, room_number>>)
        mrn_count == Cardinality(RowsWithMrn(n, mrn.val))
        room_count == Cardinality(RowsWithRoom(n, room_number.val))
    IN  IF raised # "none" THEN Outcome(Unhandled(raised), n, e)
        ELSE IF mrn.val = PyNone
        THEN Outcome(Json(419, Error("Invalid MRN")), n, e)
        ELSE IF room_number.val = PyNone
        THEN Outcome(Json(420, Error("Invalid room number")), n, e)
        ELSE IF room_count > 0
        THEN Outcome(Json(200, [exists |-> "room"]), n, e)
        ELSE IF mrn_count > 0
        THEN Outcome(Json(200, [exists |-> "mrn"]), n, e)
        ELSE Outcome(Json(200, EmptyBody), n, e)

\* ------------------------------------------------------------ upload_data

\* MERGE INTO now: every row with the MRN or the room number is updated; a
\* row is inserted when there is none
MergeNow(n, row) ==
    LET matched == RowsWithMrn(n, row.mrn)
                      \cup RowsWithRoom(n, row.room_number)
    IN  IF matched = {} THEN Append(n, row)
        ELSE [i \in 1..Len(n) |-> IF i \in matched THEN row ELSE n[i]]

\* how the database takes the two statements of upload_data: both are
\* executed, the INSERT fails, or the MERGE fails after the INSERT was
\* executed.  The connection is opened with autocommit=True: a statement that
\* was executed stays.
DbOutcomes == {"executed", "insert_fails", "merge_fails"}

upload_data(req, n, e, db) ==
    LET mrn == validate_mrn(req.mrn)
        name == validate_name(req.name)
        currcpap == validate_cpap_pressure(req.currcpap)
        br == validate_breath_rate(req.br)
        apnea == validate_apnea_count(req.apnea)
        room_number == validate_room_number(req.room_number)
        raised == FirstRaised(<<mrn, name, currcpap, br, apnea,
                                room_number>>)
        row == Row(mrn.val, Clock(e), name.val, currcpap.val, br.val,
                   apnea.val, req.plot, room_number.val)
    IN  IF raised # "none" THEN Outcome(Unhandled(raised), n, e)
        ELSE IF name.val = EmptyName
        THEN Outcome(Json(415, Error("Invalid name")), n, e)
        ELSE IF currcpap.val = PyNone
        THEN Outcome(Json(416, Error("Invalid CPAP pressure")), n, e)
        ELSE IF br.val = PyNone
        THEN Outcome(Json(417, Error("Invalid breathing rate")), n, e)
        ELSE IF apnea.val = PyNone
        THEN Outcome(Json(418, Error("Invalid apnea count")), n, e)
        ELSE IF mrn.val = PyNone
        THEN Outcome(Json(419, Error("Invalid MRN")), n, e)
        ELSE IF room_number.val = PyNone
        THEN Outcome(Json(420, Error("Invalid room number")), n, e)
        ELSE IF req.plot = PyNone
        THEN Outcome(Unhandled("AttributeError"), n, e)
        ELSE IF db = "insert_fails"
        THEN Outcome(Json(500, Error("OperationalError")), n, e)
        ELSE IF db = "merge_fails"
        THEN Outcome(Json(500, Error("OperationalError")), n, Append(e, row))
        ELSE Outcome(Json(200, [message |-> "Data uploaded successfully"]),
                     MergeNow(n, row), Append(e, row))

\* ------------------------------------------------------------ update_patient_info

\* UPDATE now SET name, currcpap, br, apnea, plot, datetime WHERE mrn = %s
UpdateNow(n, mrn, row) ==
    [i \in 1..Len(n) |->
        IF i \in RowsWithMrn(n, mrn)
        THEN [n[i] EXCEPT !.name = row.name, !.currcpap = row.currcpap,
                          !.br = row.br, !.apnea = row.apnea,
                          !.plot = row.plot, !.datetime = row.datetime]
        ELSE n[i]]

\* SELECT TOP 1 room_number FROM now WHERE mrn = %s: the room of any one of
\* the rows with that MRN, NULL when there is none
TopRooms(n, mrn) ==
    IF RowsWithMrn(n, mrn) = {} THEN {PyNone}
    ELSE {n[i].room_number : i \in RowsWithMrn(n, mrn)}

\* room is the room_number the subquery selects
update_patient_info(req, n, e, room) ==
    LET mrn == validate_mrn(req.mrn)
        name == validate_name(req.name)
        currcpap == validate_cpap_pressure(req.currcpap)
        br == validate_breath_rate(req.br)
        apnea == validate_apnea_count(req.apnea)
        raised == FirstRaised(<<mrn, name, currcpap, br, apnea>>)
        row == Row(mrn.val, Clock(e), name.val, currcpap.val, br.val,
                   apnea.val, req.plot, room)
    IN  IF raised # "none" THEN Outcome(Unhandled(raised), n, e)
        ELSE IF name.val = EmptyName
        THEN Outcome(Json(415, Error("Invalid name")), n, e)
        ELSE IF currcpap.val = PyNone
        THEN Outcome(Json(416, Error("Invalid CPAP pressure")), n, e)
        ELSE IF br.val = PyNone
        THEN Outcome(Json(417, Error("Invalid breathing rate")), n, e)
        ELSE IF apnea.val = PyNone
        THEN Outcome(Json(418, Error("Invalid apnea count")), n, e)
        ELSE Outcome(Json(200, [message |->
                                  "Patient information updated successfully"]),
                     UpdateNow(n, mrn.val, row), Append(e, row))

\* ------------------------------------------------------------ fetch_cpap_pressure

DefaultPressure == PyStr(<<"0", ".", "0">>)

\* the rows the query selects: mrn = {} OR room_number = {}
RowsWithMrnOrRoom(n, mrn, room_number) ==
    RowsWithMrn(n, mrn) \cup RowsWithRoom(n, room_number)

\* stored is the currcpap of the row fetchone returned, PyNone when the query
\* selected no row.  A None formatted into the query is not SQL: the
\* statement fails and the handler answers 500.
fetch_cpap_pressure(req, n, e, stored) ==
    LET mrn == validate_mrn(req.mrn)
        room_number == validate_room_number(req.room_number)
        currcpap == validate_cpap_pressure(req.currcpap)
        raised == FirstRaised(<<mrn, room_number, currcpap>>)
    IN  IF raised # "none" THEN Outcome(Unhandled(raised), n, e)
        ELSE IF mrn.val = PyNone \/ room_number.val = PyNone
        THEN Outcome(Json(500, Error("An error occurred")), n, e)
        ELSE IF RowsWithMrnOrRoom(n, mrn.val, room_number.val) # {}
        THEN (IF validate_cpap_pressure(stored).val = PyNone
              THEN Outcome(Json(416, Error("Invalid CPAP pressure")), n, e)
              ELSE Outcome(Json(200, [cpap_pressure |-> stored]), n, e))
        ELSE IF currcpap.val # PyNone
        THEN Outcome(Json(200, [cpap_pressure |-> currcpap.val]), n, e)
        ELSE Outcome(Json(200, [cpap_pressure |-> DefaultPressure]), n, e)

\* what fetchone may return for the request
StoredPressures(req, n) ==
    LET mrn == validate_mrn(req.mrn)
        room_number == validate_room_number(req.room_number)
    IN  IF mrn.exc # "none" \/ room_number.exc # "none" THEN {PyNone}
        ELSE IF RowsWithMrnOrRoom(n, mrn.val, room_number.val) = {}
        THEN {PyNone}
        ELSE {n[i].currcpap :
                 i \in RowsWithMrnOrRoom(n, mrn.val, room_number.val)}

\* ------------------------------------------------------------ send_cpap

send_cpap_all_rooms(n, room_number, cpap) ==
    [i \in 1..Len(n) |-> [n[i] EXCEPT !.currcpap = cpap]]

\* UPDATE now SET currcpap = {cpap} WHERE room_number = {room_number}
send_cpap(n, room_number, cpap) ==
    [i \in 1..Len(n) |->
        IF i \in RowsWithRoom(n, room_number)
        THEN [n[i] EXCEPT !.currcpap = cpap]
        ELSE n[i]]

send_cpap_handler(in_json, n, e) ==
    IF validate_send_cpap(in_json)
    THEN Outcome(Json(200, Plain("update successful")),
                 send_cpap(n, Item(in_json, "room_number"),
                           Item(in_json, "cpap")),
                 e)
    ELSE Outcome(Json(400, Plain("invalid input")), n, e)

\* ------------------------------------------------------------ callers

MetricsWithFlowRateOnly(m, fr, filtered) == ("flow_rate" :> fr) @@ m

\* process_cpap_data: metrics['flow_rate'] = flow_rate;
\* metrics['filtered_flow_rate'] = filtered_flow_rate
MetricsWithSeries(m, fr, filtered) ==
    ("filtered_flow_rate" :> filtered) @@ (("flow_rate" :> fr) @@ m)

LogEnded == "INFO Data analysis has ended."

LogFailed == "ERROR Failed to process CPAP data"

\* ------------------------------------------------------------ inputs

\* longest raw matrix of the flow_vs_time runs
MaxFlowRows == 2

\* ADC counts of the three pressure taps: below, at and above the zero point
AdcVals == {AdcLow - 80, AdcLow, AdcLow + 120}

\* acquisition clock of the small matrices: one row every 10 ms
TimeOfRow(i) == (i - 1) * (TicksPerSec \div 100)

RawMatrices(maxRows) ==
    UNION {{[i \in 1..n |-> <<TimeOfRow(i), r[i][1], r[i][2], r[i][3]>>] :
              r \in [1..n -> AdcVals \X AdcVals \X AdcVals]} : n \in 0..maxRows}

NoMetrics == <<>>

\* ------------------------------------------------------------ flow_vs_time runs

InitFlow ==
    /\ pc = "flow_vs_time"
    /\ caller = "flow_vs_time"
    /\ data \in RawMatrices(MaxFlowRows)
    /\ flow_rate = <<>>
    /\ filtered_flow_rate = <<>>
    /\ peak_times = <<>>
    /\ apneas = 0
    /\ leakage = Num(0)
    /\ metrics = NoMetrics
    /\ log = <<>>
    /\ OutsideIdle

FlowVsTime ==
    /\ pc = "flow_vs_time"
    /\ flow_rate' = flow_vs_time(data)
    /\ pc' = "flow_done"
    /\ UNCHANGED <<outside, caller, data, filtered_flow_rate, peak_times, apneas,
                   leakage, metrics, log>>

NextFlow == FlowVsTime

SpecFlow == InitFlow /\ [][NextFlow]_vars

\* a row whose radicand is valid: the upstream pressure is not below p2
ValidRadicand(row) == Max(p1_ins_Pa(row), p1_exp_Pa(row)) >= p2_Pa(row)

\* C1: every row of flow_vs_time with a valid radicand yields a flow value
\* that is a number, <= 0 when p1_exp_Pa > p1_ins_Pa and >= 0 otherwise.
C1_FlowSign ==
    pc = "flow_done" =>
        /\ Len(flow_rate) = Len(data)
        /\ \A i \in 1..Len(data) :
              ValidRadicand(data[i]) =>
                 /\ ~IsNaN(flow_rate[i][2])
                 /\ IF p1_exp_Pa(data[i]) > p1_ins_Pa(data[i])
                    THEN flow_rate[i][2].v <= 0
                    ELSE flow_rate[i][2].v >= 0

\* a run with an expiration row of negative flow and an inspiration row of
\* positive flow
C1_Witness ==
    /\ pc = "flow_done"
    /\ \E i, j \in 1..Len(data) :
          /\ ValidRadicand(data[i]) /\ ValidRadicand(data[j])
          /\ p1_exp_Pa(data[i]) > p1_ins_Pa(data[i])
          /\ flow_rate[i][2].v < 0
          /\ p1_exp_Pa(data[j]) <= p1_ins_Pa(data[j])
          /\ flow_rate[j][2].v > 0

\* C24: flow_vs_time emits one (time, flow) sample per input row, in input
\* order and with the row's time unchanged; the flow of a sample is NaN
\* exactly when the upstream pressure of its own row is below p2_Pa, and the
\* call does not raise.
C24_SamplePerRow ==
    pc = "flow_done" =>
        /\ Len(flow_rate) = Len(data)
        /\ \A i \in 1..Len(data) :
              /\ flow_rate[i][1] = data[i][1]
              /\ IsNaN(flow_rate[i][2]) <=> ~ValidRadicand(data[i])

\* a run of two rows, one with an invalid radicand and a NaN flow, the other
\* with a flow that is a number other than zero
C24_Witness ==
    /\ pc = "flow_done"
    /\ Len(data) = 2
    /\ \E i, j \in 1..2 :
          /\ ~ValidRadicand(data[i])
          /\ IsNaN(flow_rate[i][2])
          /\ ValidRadicand(data[j])
          /\ ~IsNaN(flow_rate[j][2])
          /\ flow_rate[j][2].v # 0

\* ------------------------------------------------------------ apnea_events runs

\* most peaks of a peak sequence given to apnea_events
MaxPeaks == 4

\* time of the first peak, ticks
FirstPeak == 500

\* gaps between adjacent peaks, ticks: a tie, 0.5 s, exactly 10 s, one tick
\* more than 10 s, 15 s
GapVals == {0, TicksPerSec \div 2, 10 * TicksPerSec, 10 * TicksPerSec + 1,
            15 * TicksPerSec}

\* gaps above 10 s that a step inserts
LongGaps == {10 * TicksPerSec + 1, 20 * TicksPerSec}

RECURSIVE PeaksFromGaps(_, _)
PeaksFromGaps(t0, gaps) ==
    IF gaps = <<>> THEN <<t0>>
    ELSE <<t0>> \o PeaksFromGaps(t0 + Head(gaps), Tail(gaps))

PeakSequences(maxPeaks) ==
    {<<>>} \cup UNION {{PeaksFromGaps(FirstPeak, g) : g \in [1..n -> GapVals]} :
                          n \in 0..(maxPeaks - 1)}

\* the peak sequence with a gap g inserted after peak i: a new peak g after
\* peak i, the later peaks moved g later
WithGap(pt, i, g) ==
    [k \in 1..(Len(pt) + 1) |->
        IF k <= i THEN pt[k] ELSE pt[k - 1] + g]

\* the peak sequence with the gap after peak i removed: peak i+1 dropped,
\* the later peaks moved earlier by that gap
WithoutGap(pt, i) ==
    [k \in 1..(Len(pt) - 1) |->
        IF k <= i THEN pt[k] ELSE pt[k + 1] - (pt[i + 1] - pt[i])]

StrictlyIncreasing(s) == \A i \in 1..(Len(s) - 1) : s[i] < s[i + 1]

NonDecreasing(s) == \A i \in 1..(Len(s) - 1) : s[i] <= s[i + 1]

ApneaCounted == {"apnea_done", "gap_inserted", "gap_removed"}

InitApnea ==
    /\ pc = "apnea_events"
    /\ caller = "apnea_events"
    /\ data = <<>>
    /\ flow_rate = <<>>
    /\ filtered_flow_rate = <<>>
    /\ peak_times \in PeakSequences(MaxPeaks)
    /\ apneas = 0
    /\ leakage = Num(0)
    /\ metrics = NoMetrics
    /\ log = <<>>
    /\ OutsideIdle

ApneaEvents ==
    /\ pc = "apnea_events"
    /\ apneas' = apnea_events(peak_times)
    /\ pc' = "apnea_done"
    /\ UNCHANGED <<outside, caller, data, flow_rate, filtered_flow_rate, peak_times,
                   leakage, metrics, log>>

\* apnea_events on the sequence with one more gap above 10 s
ApneaAfterInsert ==
    /\ pc \in ApneaCounted
    /\ Len(peak_times) < MaxPeaks
    /\ \E i \in 1..Len(peak_times), g \in LongGaps :
          /\ peak_times' = WithGap(peak_times, i, g)
          /\ apneas' = apnea_events(WithGap(peak_times, i, g))
    /\ pc' = "gap_inserted"
    /\ UNCHANGED <<outside, caller, data, flow_rate, filtered_flow_rate, leakage,
                   metrics, log>>

\* apnea_events on the sequence with one gap above 10 s removed
ApneaAfterRemove ==
    /\ pc \in ApneaCounted
    /\ \E i \in 1..(Len(peak_times) - 1) :
          /\ peak_times[i + 1] - peak_times[i] > ApneaThreshold * TicksPerSec
          /\ peak_times' = WithoutGap(peak_times, i)
          /\ apneas' = apnea_events(WithoutGap(peak_times, i))
    /\ pc' = "gap_removed"
    /\ UNCHANGED <<outside, caller, data, flow_rate, filtered_flow_rate, leakage,
                   metrics, log>>

NextApnea == ApneaEvents \/ ApneaAfterInsert \/ ApneaAfterRemove

SpecApnea == InitApnea /\ [][NextApnea]_vars

\* C4: apnea_events returns the number of adjacent pairs of peak times more
\* than 10 s apart: 0 for no peak or one peak, 1 for two peaks 15 s apart.
C4_ApneaCount ==
    pc \in ApneaCounted =>
        /\ apneas = Cardinality({i \in 1..(Len(peak_times) - 1) :
                        peak_times[i + 1] - peak_times[i] > 10 * TicksPerSec})
        /\ (Len(peak_times) <= 1 => apneas = 0)
        /\ (Len(peak_times) = 2 /\
              peak_times[2] - peak_times[1] = 15 * TicksPerSec => apneas = 1)

\* two peaks 15 s apart counted as one apnea event
C4_Witness ==
    /\ pc = "apnea_done"
    /\ Len(peak_times) = 2
    /\ peak_times[2] - peak_times[1] = 15 * TicksPerSec
    /\ apneas = 1

\* C5: one more gap above 10 s in a peak sequence never lowers the value of
\* apnea_events, one such gap less never raises it.
C5_ApneaMonotone ==
    [][(pc \in ApneaCounted /\ StrictlyIncreasing(peak_times)) =>
          /\ (pc' = "gap_inserted" => apneas' >= apneas)
          /\ (pc' = "gap_removed" => apneas' <= apneas)]_vars

\* a gap inserted between two peaks of a strictly increasing sequence that
\* already holds an apnea event
C5_Witness ==
    /\ pc = "gap_inserted"
    /\ StrictlyIncreasing(peak_times)
    /\ Len(peak_times) = 4
    /\ apneas = 2

\* ------------------------------------------------------------ calculate_leakage runs

\* longest flow series given to calculate_leakage
MaxLeakRows == 3

\* steps of the time axis, ticks (0: two samples with one timestamp)
LeakSteps == {0, 3, 10}

\* flow values, 1e-5 m^3/s
LeakFlows == {NaN, Num(0 - 4), Num(0), Num(3)}

RECURSIVE TimesFromSteps(_, _)
TimesFromSteps(t0, steps) ==
    IF steps = <<>> THEN <<t0>>
    ELSE <<t0>> \o TimesFromSteps(t0 + Head(steps), Tail(steps))

FlowSeries(maxRows) ==
    {<<>>} \cup
    UNION {{[i \in 1..n |-> <<TimesFromSteps(0, st)[i], q[i]>>] :
               st \in [1..(n - 1) -> LeakSteps], q \in [1..n -> LeakFlows]} :
             n \in 1..maxRows}

NegatedSeries(fr) == [i \in 1..Len(fr) |-> <<fr[i][1], Neg(fr[i][2])>>]

LeakComputed == {"leak_done", "leak_negated"}

InitLeak ==
    /\ pc = "calculate_leakage"
    /\ caller = "calculate_leakage"
    /\ data = <<>>
    /\ flow_rate \in FlowSeries(MaxLeakRows)
    /\ filtered_flow_rate = <<>>
    /\ peak_times = <<>>
    /\ apneas = 0
    /\ leakage = Num(0)
    /\ metrics = NoMetrics
    /\ log = <<>>
    /\ OutsideIdle

\* flow_rate_data[:, 0] of an empty array raises IndexError
CalculateLeakage ==
    /\ pc = "calculate_leakage"
    /\ IF Len(flow_rate) = 0
       THEN /\ pc' = "raised"
            /\ UNCHANGED <<leakage, log>>
       ELSE /\ leakage' = calculate_leakage(flow_rate)
            /\ log' = log \o LeakageLog(calculate_leakage(flow_rate))
            /\ pc' = "leak_done"
    /\ UNCHANGED <<outside, caller, data, flow_rate, filtered_flow_rate, peak_times,
                   apneas, metrics>>

\* calculate_leakage on the pointwise negation of the series
LeakageOfNegation ==
    /\ pc = "leak_done"
    /\ flow_rate' = NegatedSeries(flow_rate)
    /\ leakage' = calculate_leakage(NegatedSeries(flow_rate))
    /\ log' = log \o LeakageLog(calculate_leakage(NegatedSeries(flow_rate)))
    /\ pc' = "leak_negated"
    /\ UNCHANGED <<outside, caller, data, filtered_flow_rate, peak_times, apneas,
                   metrics>>

NextLeak == CalculateLeakage \/ LeakageOfNegation

SpecLeak == InitLeak /\ [][NextLeak]_vars

\* C6: the leakage of the pointwise negation of a flow series is the leakage
\* of the series with the opposite sign and the same magnitude (an invalid
\* leakage stays invalid).
C6_LeakageNegation ==
    [][pc' = "leak_negated" =>
          /\ IsNaN(leakage') = IsNaN(leakage)
          /\ leakage'.v = 0 - leakage.v]_vars

\* a positive leakage whose negated series gave the negative of it
C6_Witness ==
    /\ pc = "leak_negated"
    /\ ~IsNaN(leakage)
    /\ leakage.v > 0
    /\ log = <<WarnNegative>>

\* twice the integral of a series without NaN, in tick * 1e-5 m^3/s; one
\* unit is 2.5e-9 m^3 = 2.5e-6 L = 5 units of 0.5e-6 L
TwiceIntegral(fr) ==
    SumSeq([i \in 1..(Len(fr) - 1) |->
              (fr[i + 1][1] - fr[i][1]) * (fr[i + 1][2].v + fr[i][2].v)])

\* C7: calculate_leakage returns the integrated value in liters whatever its
\* sign, does not raise on a negative value, and logs "Negative leakage
\* detected." exactly when the value it returns is below 0.
C7_NegativeLeakage ==
    [][(pc \in {"calculate_leakage", "leak_done"} /\ Len(flow_rate') >= 1) =>
          /\ pc' \in LeakComputed
          /\ (~IsNaN(leakage') =>
                leakage'.v = TwiceIntegral(flow_rate') * 5)
          /\ log' = IF ~IsNaN(leakage') /\ leakage'.v < 0
                    THEN Append(log, WarnNegative) ELSE log]_vars

\* a negative leakage returned as it is, with its warning
C7_Witness ==
    /\ pc = "leak_done"
    /\ ~IsNaN(leakage)
    /\ leakage.v < 0
    /\ leakage.v = TwiceIntegral(flow_rate) * 5
    /\ log = <<WarnNegative>>

\* ------------------------------------------------------------ calculate_metrics runs

\* most peaks of a peak sequence given to calculate_metrics
MaxMetricPeaks == 3

\* time axes of the flow series, ticks: empty, one sample, a duration of 0, of
\* half a millisecond, of 1.5 ms, of 3.5005 s, of a minute, a clock that runs
\* backwards, three samples
MetricTimeAxes ==
    {<<>>, <<5>>, <<0, 0>>, <<0, 1>>, <<4, 7>>, <<0, 7001>>,
     <<0, 60 * TicksPerSec>>, <<10, 0>>, <<0, 50, 9 * TicksPerSec>>}

\* leakages, units of 0.5e-6 L
MetricLeakages == {NaN, Num(0 - 1000), Num(3000), Num(0 - 7001)}

SeriesOfTimes(t) == [i \in 1..Len(t) |-> <<t[i], Num(0)>>]

InitMetrics ==
    /\ pc = "calculate_metrics"
    /\ caller = "calculate_metrics"
    /\ data = <<>>
    /\ flow_rate \in {SeriesOfTimes(t) : t \in MetricTimeAxes}
    /\ filtered_flow_rate = <<>>
    /\ peak_times \in PeakSequences(MaxMetricPeaks)
    /\ apneas \in {0, 2}
    /\ leakage \in MetricLeakages
    /\ metrics = NoMetrics
    /\ log = <<>>
    /\ OutsideIdle

\* flow_rate_data[:, 0] of an empty array raises IndexError
CalculateMetrics ==
    /\ pc = "calculate_metrics"
    /\ IF Len(flow_rate) = 0
       THEN /\ pc' = "raised"
            /\ UNCHANGED metrics
       ELSE /\ metrics' = calculate_metrics(flow_rate, peak_times, apneas,
                                            leakage)
            /\ pc' = "metrics_done"
    /\ UNCHANGED <<outside, caller, data, flow_rate, filtered_flow_rate, peak_times,
                   apneas, leakage, log>>

NextMetrics == CalculateMetrics

SpecMetrics == InitMetrics /\ [][NextMetrics]_vars

\* C2: in a record of calculate_metrics, breaths is the length of
\* breath_times, and when the duration of the series is above 0,
\* breath_rate_bpm is breaths / (duration / 60) rounded to three decimals.
C2_MetricsConsistency ==
    pc = "metrics_done" =>
        /\ metrics.breaths = Len(metrics.breath_times)
        /\ (Duration(flow_rate) > 0 =>
              metrics.breath_rate_bpm =
                 RoundHalfEven(metrics.breaths * 60000 * TicksPerSec,
                               Duration(flow_rate)))

\* three breaths in 3.5005 s: 51.421 breaths per minute
C2_Witness ==
    /\ pc = "metrics_done"
    /\ Duration(flow_rate) = 7001
    /\ metrics.breaths = 3
    /\ metrics.breath_rate_bpm = 51421

\* C8: for a series whose duration is 0 or less, calculate_metrics returns a
\* record with a breath rate of 0, whatever the number of peaks.
C8_ZeroDuration ==
    (pc \in {"metrics_done", "raised"} /\ Len(flow_rate) >= 1
       /\ Duration(flow_rate) <= 0) =>
        /\ pc = "metrics_done"
        /\ metrics.breath_rate_bpm = 0

\* a record for three peaks and a clock that runs backwards
C8_Witness ==
    /\ pc = "metrics_done"
    /\ Duration(flow_rate) < 0
    /\ metrics.breaths = 3
    /\ metrics.breath_rate_bpm = 0

\* ------------------------------------------------------------ detect_peak_times runs

\* samples of a recording with breaths
NumSamples == 220

\* ticks between two samples of a recording: 10 ms
SampleTicks == 20

\* half the width of a breath, samples
PulseHalfWidth == 12

\* the samples at which a breath may peak
PulsePositions == <<45, 105, 185>>

\* at each position: no breath, an inspiration, a shallow inspiration, an
\* expiration
PulseKinds == {"none", "ins", "low", "exp"}

\* ADC counts of a full and of a shallow breath above the zero point
PulseCounts(kind) == IF kind = "low" THEN 2 ELSE 100

\* clocks of a recording: even; timestamps of one second resolution; a pause
\* of 15 s after sample 140; and the degenerate ones: a clock that stands
\* still, one that runs backwards, one sample per second
GoodClocks == {"even", "seconds", "pause"}

BadClocks == {"stuck", "backwards", "slow"}

TimeAt(clock, i) ==
    CASE clock = "even" -> (i - 1) * SampleTicks
      [] clock = "seconds" -> (((i - 1) * SampleTicks) \div TicksPerSec)
                                  * TicksPerSec
      [] clock = "pause" -> (i - 1) * SampleTicks
                              + (IF i > 140 THEN 15 * TicksPerSec ELSE 0)
      [] clock = "stuck" -> 0
      [] clock = "backwards" -> (NumSamples - i) * SampleTicks
      [] clock = "slow" -> (i - 1) * TicksPerSec

\* counts added at sample i by the breaths of the given kinds
Bump(kinds, wanted, i) ==
    SumSeq([k \in 1..Len(PulsePositions) |->
        IF kinds[k] \in wanted
        THEN (PulseCounts(kinds[k]) *
                Max(0, PulseHalfWidth - Abs(i - PulsePositions[k])))
                  \div PulseHalfWidth
        ELSE 0])

\* a recording: the clock, the breaths, and a sample (0: none) whose
\* constriction pressure is above the upstream pressure
Recording(clock, kinds, bad) ==
    [i \in 1..NumSamples |->
        <<TimeAt(clock, i),
          IF i = bad THEN AdcLow + 50 ELSE AdcLow,
          AdcLow + Bump(kinds, {"ins", "low"}, i),
          AdcLow + Bump(kinds, {"exp"}, i)>>]

Recordings ==
    {Recording(c, k, b) : c \in GoodClocks,
                          k \in [1..Len(PulsePositions) -> PulseKinds],
                          b \in {0, 150}}
    \cup {Recording(c, k, 0) : c \in BadClocks,
                               k \in {[i \in 1..Len(PulsePositions) |-> "ins"]}}

InitPeaks ==
    /\ pc = "detect_peak_times"
    /\ caller = "detect_peak_times"
    /\ data = <<>>
    /\ flow_rate \in {flow_vs_time(d) :
                         d \in Recordings \cup RawMatrices(MaxFlowRows)}
    /\ filtered_flow_rate = <<>>
    /\ peak_times = <<>>
    /\ apneas = 0
    /\ leakage = Num(0)
    /\ metrics = NoMetrics
    /\ log = <<>>
    /\ OutsideIdle

DetectPeakTimes ==
    /\ pc = "detect_peak_times"
    /\ IF DetectRaises(flow_rate)
       THEN /\ pc' = "raised"
            /\ UNCHANGED <<peak_times, filtered_flow_rate>>
       ELSE /\ peak_times' = detect_peak_times(flow_rate).peak_times
            /\ filtered_flow_rate' =
                  detect_peak_times(flow_rate).filtered_flow_rate
            /\ pc' = "peaks_done"
    /\ UNCHANGED <<outside, caller, data, flow_rate, apneas, leakage, metrics, log>>

NextPeaks == DetectPeakTimes

SpecPeaks == InitPeaks /\ [][NextPeaks]_vars

\* first index in lo .. hi at which the time axis holds v, hi + 1 when none
RECURSIVE FirstAt(_, _, _, _)
FirstAt(time, v, lo, hi) ==
    IF lo > hi THEN hi + 1
    ELSE IF lo = hi THEN (IF time[lo] = v THEN lo ELSE hi + 1)
    ELSE LET mid == (lo + hi) \div 2
             l == FirstAt(time, v, lo, mid)
         IN  IF l <= mid THEN l ELSE FirstAt(time, v, mid + 1, hi)

\* pt[k ..] can be read off the time axis from index `from` on, in order
RECURSIVE SubsequenceFrom(_, _, _, _)
SubsequenceFrom(pt, k, time, from) ==
    IF k > Len(pt) THEN TRUE
    ELSE LET i == FirstAt(time, pt[k], from, Len(time))
         IN  i <= Len(time) /\ SubsequenceFrom(pt, k + 1, time, i + 1)

IsSubsequence(pt, time) == SubsequenceFrom(pt, 1, time, 1)

\* the original statement of C3: on a non-decreasing time axis the peak
\* times are strictly increasing and a subsequence of the time axis
C3_Original ==
    (pc = "peaks_done" /\ NonDecreasing(Column(flow_rate, 1))) =>
        /\ StrictlyIncreasing(peak_times)
        /\ IsSubsequence(peak_times, Column(flow_rate, 1))

\* C3 (amended): on a non-decreasing time axis the peak times are
\* non-decreasing and a subsequence of the time axis; they are strictly
\* increasing when the time axis is strictly increasing.
C3_PeakOrdering ==
    (pc = "peaks_done" /\ NonDecreasing(Column(flow_rate, 1))) =>
        /\ NonDecreasing(peak_times)
        /\ IsSubsequence(peak_times, Column(flow_rate, 1))
        /\ (StrictlyIncreasing(Column(flow_rate, 1)) =>
               StrictlyIncreasing(peak_times))

\* two breaths detected on a strictly increasing time axis
C3_Witness ==
    /\ pc = "peaks_done"
    /\ StrictlyIncreasing(Column(flow_rate, 1))
    /\ Len(peak_times) = 2
    /\ peak_times[1] < peak_times[2]

\* C9: detect_peak_times raises, and returns nothing, for a series of fewer
\* than two samples and for a time axis that does not advance.
C9_DegenerateFails ==
    (pc \in {"peaks_done", "raised"} /\
       (Len(flow_rate) < 2 \/
          flow_rate[Len(flow_rate)][1] = flow_rate[1][1])) =>
        /\ pc = "raised"
        /\ peak_times = <<>>
        /\ filtered_flow_rate = <<>>

\* a recording whose clock stands still, refused
C9_Witness ==
    /\ pc = "raised"
    /\ Len(flow_rate) = NumSamples
    /\ \A i \in 1..Len(flow_rate) : flow_rate[i][1] = flow_rate[1][1]

C9_WitnessShort ==
    /\ pc = "raised"
    /\ Len(flow_rate) = 1

\* ------------------------------------------------------------ analysis runs

\* The pipeline of cpap_analysis.main and of patient_gui.process_cpap_data,
\* from the matrix data_acquisition returned: one step per stage.
Callers == {"main", "process_cpap_data"}

\* matrices with fewer rows than the longest of the flow_vs_time runs: too
\* short for the breath detector when that is two rows
ShortMatrices == RawMatrices(MaxFlowRows - 1)

InitPipeline ==
    /\ pc = "p_flow"
    /\ caller \in Callers
    /\ data \in Recordings \cup ShortMatrices
    /\ flow_rate = <<>>
    /\ filtered_flow_rate = <<>>
    /\ peak_times = <<>>
    /\ apneas = 0
    /\ leakage = Num(0)
    /\ metrics = NoMetrics
    /\ log = <<>>
    /\ OutsideIdle

\* an exception in a stage: main lets it through, process_cpap_data logs
\* it and returns None
StageRaises ==
    IF caller = "main"
    THEN /\ pc' = "raised"
         /\ UNCHANGED <<metrics, log>>
    ELSE /\ pc' = "returned_none"
         /\ metrics' = NoMetrics
         /\ log' = Append(log, LogFailed)

PipeFlow ==
    /\ pc = "p_flow"
    /\ flow_rate' = flow_vs_time(data)
    /\ pc' = "p_peaks"
    /\ UNCHANGED <<outside, caller, data, filtered_flow_rate, peak_times, apneas,
                   leakage, metrics, log>>

PipePeaks ==
    /\ pc = "p_peaks"
    /\ IF DetectRaises(flow_rate)
       THEN /\ StageRaises
            /\ UNCHANGED <<peak_times, filtered_flow_rate>>
       ELSE /\ peak_times' = detect_peak_times(flow_rate).peak_times
            /\ filtered_flow_rate' =
                  detect_peak_times(flow_rate).filtered_flow_rate
            /\ pc' = "p_apnea"
            /\ UNCHANGED <<metrics, log>>
    /\ UNCHANGED <<outside, caller, data, flow_rate, apneas, leakage>>

PipeApnea ==
    /\ pc = "p_apnea"
    /\ apneas' = apnea_events(peak_times)
    /\ pc' = "p_leak"
    /\ UNCHANGED <<outside, caller, data, flow_rate, filtered_flow_rate, peak_times,
                   leakage, metrics, log>>

PipeLeakInPlace ==
    /\ pc = "p_leak"
    /\ leakage' = calculate_leakage(flow_rate)
    /\ log' = log \o LeakageLog(calculate_leakage(flow_rate))
    /\ flow_rate' = [i \in 1..Len(flow_rate) |->
                        <<flow_rate[i][1], Neg(flow_rate[i][2])>>]
    /\ pc' = "p_metrics"
    /\ UNCHANGED <<outside, caller, data, filtered_flow_rate, peak_times,
                   apneas, metrics>>

PipeLeak ==
    /\ pc = "p_leak"
    /\ leakage' = calculate_leakage(flow_rate)
    /\ log' = log \o LeakageLog(calculate_leakage(flow_rate))
    /\ pc' = "p_metrics"
    /\ UNCHANGED <<outside, caller, data, flow_rate, filtered_flow_rate, peak_times,
                   apneas, metrics>>

PipeMetrics ==
    /\ pc = "p_metrics"
    /\ metrics' = calculate_metrics(flow_rate, peak_times, apneas, leakage)
    /\ pc' = "p_finish"
    /\ UNCHANGED <<outside, caller, data, flow_rate, filtered_flow_rate, peak_times,
                   apneas, leakage, log>>

\* main: json_dump writes the record, the end of the analysis is logged;
\* process_cpap_data: the two series are stored in the record, which is returned
PipeFinish ==
    /\ pc = "p_finish"
    /\ IF caller = "main"
       THEN /\ log' = Append(log, LogEnded)
            /\ UNCHANGED metrics
       ELSE /\ metrics' = MetricsWithSeries(metrics, flow_rate,
                                            filtered_flow_rate)
            /\ UNCHANGED log
    /\ pc' = "done"
    /\ UNCHANGED <<outside, caller, data, flow_rate, filtered_flow_rate, peak_times,
                   apneas, leakage>>

NextPipeline ==
    PipeFlow \/ PipePeaks \/ PipeApnea \/ PipeLeak \/ PipeMetrics \/ PipeFinish

SpecPipeline == InitPipeline /\ [][NextPipeline]_vars

MetricsKeys ==
    {"duration", "breaths", "breath_rate_bpm", "breath_times", "apnea_count",
     "leakage"}

SeriesKeys == {"flow_rate", "filtered_flow_rate"}

\* the original statement of C10: in both callers the record has exactly the
\* six keys and is the record calculate_metrics created
C10_Original ==
    pc \in {"p_finish", "done"} =>
        /\ DOMAIN metrics = MetricsKeys
        /\ metrics = calculate_metrics(flow_rate, peak_times, apneas, leakage)

\* C10 (amended): calculate_metrics creates a record of exactly the six keys;
\* main leaves it as it is; process_cpap_data adds the keys flow_rate and
\* filtered_flow_rate to it and leaves the six fields as created.
C10_MetricsRecord ==
    pc \in {"p_finish", "done"} =>
        /\ DOMAIN metrics =
              IF caller = "process_cpap_data" /\ pc = "done"
              THEN MetricsKeys \cup SeriesKeys ELSE MetricsKeys
        /\ \A k \in MetricsKeys :
              metrics[k] =
                 calculate_metrics(flow_rate, peak_times, apneas, leakage)[k]
        /\ (caller = "process_cpap_data" /\ pc = "done" =>
              /\ metrics.flow_rate = flow_rate
              /\ metrics.filtered_flow_rate = filtered_flow_rate)

\* a record with two breaths returned by process_cpap_data
C10_Witness ==
    /\ pc = "done"
    /\ caller = "process_cpap_data"
    /\ DOMAIN metrics = MetricsKeys \cup SeriesKeys
    /\ metrics.breaths = 2

\* C30: in every metrics record the pipeline builds, apnea_count is at least 0
\* and at most max(0, breaths - 1), the number of intervals between the
\* detected breaths.
C30_ApneaBound ==
    pc \in {"p_finish", "done"} =>
        /\ metrics.apnea_count >= 0
        /\ metrics.apnea_count <= Max(0, metrics.breaths - 1)

\* a record with an apnea event: two breaths or more, one long interval
C30_Witness ==
    /\ pc = "done"
    /\ metrics.breaths >= 2
    /\ metrics.apnea_count >= 1
    /\ metrics.apnea_count = apnea_events(peak_times)

\* C13: no stage changes what it is given: the raw matrix stays as it is in
\* every step, the flow series in every step after flow_vs_time made it, the
\* peak times in every step after detect_peak_times made them.
C13_InputsUnchanged ==
    [][/\ data' = data
       /\ (pc # "p_flow" => flow_rate' = flow_rate)
       /\ (pc \notin {"p_flow", "p_peaks"} => peak_times' = peak_times)]_vars

\* a run through all five stages that found two breaths in a series with flow
C13_Witness ==
    /\ pc = "done"
    /\ Len(peak_times) = 2
    /\ \E i \in 1..Len(flow_rate) : flow_rate[i][2] # Num(0)
    /\ flow_rate = flow_vs_time(data)
    /\ peak_times = detect_peak_times(flow_rate).peak_times

\* ------------------------------------------------------------ reading a file

\* data_acquisition on files of up to MaxLines data rows.  Here `data` holds
\* the rows as Python floats (records [k, v]).
MaxLines == 2

FieldTexts ==
    {<<"1", "2">>, <<" ", "1", ".", "5">>, <<"n", "a", "n">>,
     <<"-", "i", "n", "f">>, <<"x">>}

FileLines ==
    {<<a, b>> : a \in FieldTexts, b \in FieldTexts}
        \cup {<<>>, <<<<"7">>>>}

Files == UNION {[1..n -> FileLines] : n \in 0..MaxLines}

InitAcquire ==
    /\ pc = "data_acquisition"
    /\ caller = "main"
    /\ file \in Files
    /\ data = <<>>
    /\ flow_rate = <<>>
    /\ filtered_flow_rate = <<>>
    /\ peak_times = <<>>
    /\ apneas = 0
    /\ leakage = Num(0)
    /\ metrics = NoMetrics
    /\ log = <<>>
    /\ now = <<>>
    /\ entries = <<>>
    /\ request = NoRequest
    /\ response = NoResponse
    /\ loggers = NoHandlers
    /\ WindowIdle

\* The whole call.  Rows of different lengths make np.array(result) raise
\* or build an array of lists, depending on the numpy installed.
DataAcquisition ==
    /\ pc = "data_acquisition"
    /\ log' = log \o AcquisitionLog(file, Len(file))
    /\ \/ /\ pc' = "acquired"
          /\ data' = AcquiredRows(file, Len(file))
       \/ /\ Ragged(AcquiredRows(file, Len(file)))
          /\ pc' = "raised"
          /\ UNCHANGED data
    /\ UNCHANGED <<file, now, entries, request, response, loggers, window, caller, flow_rate,
                   filtered_flow_rate, peak_times, apneas, leakage, metrics>>

NextAcquire == DataAcquisition

SpecAcquire == InitAcquire /\ [][NextAcquire]_vars

\* the field is the text of a finite number
FieldIsFinite(text) == ParseFloat(text).ok /\ ParseFloat(text).x.k = "fin"

RowIsFinite(line) == \A i \in 1..Len(line) : FieldIsFinite(line[i])

RECURSIVE FiniteRows(_, _)
FiniteRows(lines, n) ==
    IF n = 0 THEN <<>>
    ELSE IF RowIsFinite(lines[n])
         THEN Append(FiniteRows(lines, n - 1), RowValues(lines[n]))
         ELSE FiniteRows(lines, n - 1)

\* C11: data_acquisition returns, in file order, exactly the rows in which
\* every field is a finite number, and logs one "Invalid Input" error for
\* every other row.
C11_FiniteRows ==
    pc = "acquired" =>
        /\ data = FiniteRows(file, Len(file))
        /\ log = [i \in 1..(Len(file) - Len(data)) |-> ErrInvalidInput]

\* the rows without NaN are returned in file order, the others are logged:
\* what the code does
C11_NoNaNRows ==
    pc = "acquired" =>
        /\ data = AcquiredRows(file, Len(file))
        /\ \A i \in 1..Len(data) : \A j \in 1..Len(data[i]) :
              data[i][j].k # "nan"
        /\ log = [i \in 1..(Len(file) - Len(data)) |-> ErrInvalidInput]

\* ------------------------------------------------------------ runs of main

\* Runs of cpap_analysis.main in one process, one after the other, as the
\* module's own loop over the patient files makes them.
MaxRuns == 3

LogBeginning == "INFO Data analysis is beginning..."

\* the matrices of the runs: none, and two rows 10 ms apart
RunInputs ==
    {<<>>} \cup
    {[i \in 1..2 |-> <<TimeOfRow(i), AdcLow, a, b>>] : a, b \in AdcVals}

\* the stages of main on a matrix: what they compute and the records they
\* hand to the logger
AnalysisOf(d) ==
    LET fr == flow_vs_time(d)
    IN  IF DetectRaises(fr)
        THEN [raised |-> TRUE, flow_rate |-> fr, filtered_flow_rate |-> <<>>,
              peak_times |-> <<>>, apneas |-> 0, leakage |-> Num(0),
              metrics |-> NoMetrics, records |-> <<LogBeginning>>]
        ELSE LET dp == detect_peak_times(fr)
                 ap == apnea_events(dp.peak_times)
                 lk == calculate_leakage(fr)
             IN  [raised |-> FALSE, flow_rate |-> fr,
                  filtered_flow_rate |-> dp.filtered_flow_rate,
                  peak_times |-> dp.peak_times, apneas |-> ap,
                  leakage |-> lk,
                  metrics |-> calculate_metrics(fr, dp.peak_times, ap, lk),
                  records |-> <<LogBeginning>> \o LeakageLog(lk)
                                 \o <<LogEnded>>]

\* Logger.callHandlers: every handler of the logger writes the record
RECURSIVE Written(_, _)
Written(records, handlers) ==
    IF records = <<>> THEN <<>>
    ELSE [i \in 1..handlers |-> Head(records)]
            \o Written(Tail(records), handlers)

\* logging.getLogger(patient_name) is the same logger in every run for that
\* name; addHandler adds the run's file handler to those it already has
HandlersAfterAdd(registry, p) == [registry EXCEPT ![p] = @ + 1]

RECURSIVE TotalHandlers(_, _)
TotalHandlers(registry, ps) ==
    IF ps = {} THEN 0
    ELSE LET p == CHOOSE q \in ps : TRUE
         IN  registry[p] + TotalHandlers(registry, ps \ {p})

InitRuns ==
    /\ pc = "idle"
    /\ caller = "main"
    /\ data = <<>>
    /\ flow_rate = <<>>
    /\ filtered_flow_rate = <<>>
    /\ peak_times = <<>>
    /\ apneas = 0
    /\ leakage = Num(0)
    /\ metrics = NoMetrics
    /\ log = <<>>
    /\ OutsideIdle

\* one run of main(filename) on the matrix data_acquisition returned; log is
\* what the run wrote to the patient's log
Main ==
    /\ pc \in {"idle", "done", "raised"}
    /\ TotalHandlers(loggers, Patients) < MaxRuns
    /\ \E p \in Patients, d \in RunInputs :
          LET run == AnalysisOf(d)
          IN  /\ loggers' = HandlersAfterAdd(loggers, p)
              /\ data' = d
              /\ flow_rate' = run.flow_rate
              /\ filtered_flow_rate' = run.filtered_flow_rate
              /\ peak_times' = run.peak_times
              /\ apneas' = run.apneas
              /\ leakage' = run.leakage
              /\ metrics' = run.metrics
              /\ log' = Written(run.records, loggers'[p])
              /\ pc' = IF run.raised THEN "raised" ELSE "done"
    /\ UNCHANGED <<caller, file, now, entries, request, response, window>>

NextRuns == Main

SpecRuns == InitRuns /\ [][NextRuns]_vars

\* C12: what a run produces, the metrics record and the records in the log,
\* is what the same run produces when it is executed alone.
C12_Stateless ==
    pc \in {"done", "raised"} =>
        /\ metrics = AnalysisOf(data).metrics
        /\ log = AnalysisOf(data).records

\* ------------------------------------------------------------ validator calls

\* validate_send_cpap and validate_cpap_pressure on single arguments:
\* request is the call, response what it returned.
MaxKeys == 3

KeyNames == {"room_number", "cpap", "room_umber", "asdf"}

KeyLists ==
    UNION {{ks \in [1..n -> KeyNames] :
              \A i, j \in 1..n : i # j => ks[i] # ks[j]} : n \in 0..MaxKeys}

JsonValues ==
    {PyInt(3), PyFloat(Fin(120)), PyFloat(Fin(32)), PyStr(<<"3">>), PyNone}

SendCpapArgs ==
    {PyNone, PyList} \cup
    UNION {{PyDict(ks, vs) : vs \in [1..Len(ks) -> JsonValues]} :
              ks \in KeyLists}

PressureArgs ==
    {PyNone, PyList}
    \cup {PyInt(n) : n \in {0 - 5, 3, 4, 10, 25, 26}}
    \cup {PyFloat(Fin(v)) : v \in {39, 40, 105, 250, 251}}
    \cup {PyFloat(FloatNaN), PyFloat(FloatInf), PyFloat(FloatNegInf)}
    \cup {PyStr(t) : t \in {<<"4">>, <<"2", "5", ".", "0">>,
                            <<" ", "1", "0", ".", "5", " ">>,
                            <<"2", "5", ".", "1">>, <<"3", ".", "9">>,
                            <<"a", "b", "c">>, <<>>, <<"n", "a", "n">>,
                            <<"i", "n", "f">>, <<"-", "7">>}}

Call(route, arg) == [route |-> route, arg |-> arg]

Returned(val) == [ret |-> val]

InitValidate ==
    /\ pc = "call"
    /\ request \in {Call("validate_send_cpap", a) : a \in SendCpapArgs}
                     \cup {Call("validate_cpap_pressure", a) :
                              a \in PressureArgs}
    /\ response = NoResponse
    /\ caller = "server"
    /\ data = <<>>
    /\ flow_rate = <<>>
    /\ filtered_flow_rate = <<>>
    /\ peak_times = <<>>
    /\ apneas = 0
    /\ leakage = Num(0)
    /\ metrics = NoMetrics
    /\ log = <<>>
    /\ file = <<>>
    /\ now = <<>>
    /\ entries = <<>>
    /\ loggers = NoHandlers
    /\ WindowIdle

ValidateSendCpap ==
    /\ pc = "call"
    /\ request.route = "validate_send_cpap"
    /\ response' = Returned(validate_send_cpap(request.arg))
    /\ pc' = "returned"
    /\ UNCHANGED <<request, file, now, entries, loggers, window, caller, data,
                   flow_rate, filtered_flow_rate, peak_times, apneas, leakage,
                   metrics, log>>

ValidateCpapPressure ==
    /\ pc = "call"
    /\ request.route = "validate_cpap_pressure"
    /\ response' = Returned(validate_cpap_pressure(request.arg).val)
    /\ pc' = "returned"
    /\ UNCHANGED <<request, file, now, entries, loggers, window, caller, data,
                   flow_rate, filtered_flow_rate, peak_times, apneas, leakage,
                   metrics, log>>

NextValidate == ValidateSendCpap \/ ValidateCpapPressure

SpecValidate == InitValidate /\ [][NextValidate]_vars

KeySet(d) == {d.keys[i] : i \in 1..Len(d.keys)}

\* C14: validate_send_cpap returns True if and only if its argument is a
\* dictionary whose keys are exactly "room_number" and "cpap", with an int
\* room_number and a float cpap.
C14_ValidSendCpap ==
    (pc = "returned" /\ request.route = "validate_send_cpap") =>
        (response.ret = TRUE <=>
            /\ request.arg.t = "dict"
            /\ KeySet(request.arg) = {"room_number", "cpap"}
            /\ Item(request.arg, "room_number").t = "int"
            /\ Item(request.arg, "cpap").t = "float")

\* the pressures of the range, in tenths
InRange(v) == MinPressure * Tenths <= v /\ v <= MaxPressure * Tenths

MaxEntries == 2

Text1 == <<"1">>

Text2 == <<"2">>

MrnVals == {PyInt(1), PyStr(Text2), PyStr(<<>>)}

RoomVals == {PyStr(Text1), PyInt(2), PyNone}

NameVals ==
    {PyStr(<<" ", "A", "n", "n">>), PyStr(<<"B", "0", "b">>), PyNone, PyInt(5)}

CpapVals == {PyFloat(Fin(105)), PyInt(30), PyNone}

BrVals == {PyFloat(Fin(150)), PyStr(<<"x">>)}

ApneaVals == {PyInt(1), PyInt(0 - 1)}

PlotVals == {PyStr(<<"p">>), PyNone}

SentPressures == {PyFloat(Fin(120)), PyFloat(Fin(300))}

CheckExistsRequests ==
    {[route |-> "check_exists", mrn |-> m, room_number |-> r] :
        m \in MrnVals, r \in RoomVals}

FetchRequests ==
    {[route |-> "fetch_cpap_pressure", mrn |-> m, room_number |-> r,
      currcpap |-> c] : m \in MrnVals, r \in RoomVals, c \in CpapVals}

UploadRequests ==
    {[route |-> "upload_data", mrn |-> m, name |-> nm, currcpap |-> c,
      br |-> b, apnea |-> a, room_number |-> r, plot |-> p] :
        m \in MrnVals, nm \in NameVals, c \in CpapVals, b \in BrVals,
        a \in ApneaVals, r \in RoomVals, p \in PlotVals}

UpdateRequests ==
    {[route |-> "update_patient_info", mrn |-> m, name |-> nm,
      currcpap |-> c, br |-> b, apnea |-> a, plot |-> p] :
        m \in MrnVals, nm \in NameVals, c \in CpapVals, b \in BrVals,
        a \in ApneaVals, p \in {PyStr(<<"p">>)}}

SendCpapRequests ==
    {[route |-> "send_cpap", in_json |-> j] :
        j \in {PyDict(SendCpapKeys, <<PyInt(r), c>>) :
                  r \in {1, 2}, c \in SentPressures}
              \cup {PyDict(<<"cpap", "room_number">>,
                           <<PyFloat(Fin(120)), PyInt(1)>>),
                    PyDict(SendCpapKeys, <<PyInt(1), PyInt(12)>>)}}

\* the tables now the server may start with: empty, or one patient in
\* room 1
SeedRow ==
    Row(PyInt(1), PyInt(0), PyStr(<<"A", "n", "n">>), PyFloat(Fin(105)),
        PyFloat(Fin(150)), PyInt(1), PyStr(<<"p">>), PyInt(1))

SeedTables == {<<>>, <<SeedRow>>}

InitServer ==
    /\ pc = "serving"
    /\ caller = "server"
    /\ now \in SeedTables
    /\ entries = <<>>
    /\ request = NoRequest
    /\ response = NoResponse
    /\ data = <<>>
    /\ flow_rate = <<>>
    /\ filtered_flow_rate = <<>>
    /\ peak_times = <<>>
    /\ apneas = 0
    /\ leakage = Num(0)
    /\ metrics = NoMetrics
    /\ log = <<>>
    /\ file = <<>>
    /\ loggers = NoHandlers
    /\ WindowIdle

\* the handler runs on the request and its outcome becomes the state
Served(req, o) ==
    /\ pc = "serving"
    /\ Len(o.entries) <= MaxEntries
    /\ request' = req
    /\ response' = o.response
    /\ now' = o.now
    /\ entries' = o.entries
    /\ pc' = "responding"
    /\ UNCHANGED <<caller, data, flow_rate, filtered_flow_rate, peak_times,
                   apneas, leakage, metrics, log, file, loggers, window>>

\* the response is sent and the server waits for the next request
Respond ==
    /\ pc = "responding"
    /\ request' = NoRequest
    /\ response' = NoResponse
    /\ pc' = "serving"
    /\ UNCHANGED <<now, entries, caller, data, flow_rate, filtered_flow_rate,
                   peak_times, apneas, leakage, metrics, log, file, loggers, window>>

CheckExists ==
    /\ pc = "serving"
    /\ \E req \in CheckExistsRequests :
           Served(req, check_exists(req, now, entries))

FetchCpapPressure ==
    /\ pc = "serving"
    /\ \E req \in FetchRequests :
           \E stored \in StoredPressures(req, now) :
               Served(req, fetch_cpap_pressure(req, now, entries, stored))

UploadData ==
    /\ pc = "serving"
    /\ \E req \in UploadRequests :
           \E db \in DbOutcomes :
               Served(req, upload_data(req, now, entries, db))

UpdatePatientInfo ==
    /\ pc = "serving"
    /\ \E req \in UpdateRequests :
           \E room \in TopRooms(now, validate_mrn(req.mrn).val) :
               Served(req, update_patient_info(req, now, entries, room))

SendCpapHandler ==
    /\ pc = "serving"
    /\ \E req \in SendCpapRequests :
           Served(req, send_cpap_handler(req.in_json, now, entries))

NextServer ==
    \/ CheckExists
    \/ FetchCpapPressure
    \/ UploadData
    \/ UpdatePatientInfo
    \/ SendCpapHandler
    \/ Respond

SpecServer == InitServer /\ [][NextServer]_vars

\* a step in which the route handles a request
Handles(route) ==
    pc = "serving" /\ pc' = "responding" /\ request'.route = route

TablesUnchanged == now' = now /\ entries' = entries

NameInvalid(name) ==
    \/ name.t # "str"
    \/ Strip(name.s) = <<>>
    \/ \E i \in 1..Len(Strip(name.s)) : Strip(name.s)[i] \notin allowed_chars

\* the status of the first field of an upload that fails validation, 0 when
\* none fails
FirstFailure(req) ==
    IF NameInvalid(req.name) THEN 415
    ELSE IF validate_cpap_pressure(req.currcpap).val = PyNone THEN 416
    ELSE IF validate_breath_rate(req.br).val = PyNone THEN 417
    ELSE IF validate_apnea_count(req.apnea).val = PyNone THEN 418
    ELSE IF validate_mrn(req.mrn).val = PyNone THEN 419
    ELSE IF validate_room_number(req.room_number).val = PyNone THEN 420
    ELSE 0

\* C17: when a field of an upload_data request fails validation, the answer
\* is the error of the first failing field in the order name (415), CPAP
\* pressure (416), breathing rate (417), apnea count (418), MRN (419), room
\* number (420), and no table changes.
C17_UploadValidation ==
    [][(Handles("upload_data") /\ FirstFailure(request') # 0) =>
          /\ response'.status = FirstFailure(request')
          /\ TablesUnchanged]_vars

\* C18: update_patient_info validates MRN, name, CPAP pressure, breathing
\* rate and apnea count before it writes: when one of them is invalid it
\* answers with an error and neither table changes.
C18_UpdateValidation ==
    [][(/\ Handles("update_patient_info")
        /\ \/ validate_mrn(request'.mrn).val = PyNone
           \/ NameInvalid(request'.name)
           \/ validate_cpap_pressure(request'.currcpap).val = PyNone
           \/ validate_breath_rate(request'.br).val = PyNone
           \/ validate_apnea_count(request'.apnea).val = PyNone) =>
          /\ response'.status # 200
          /\ TablesUnchanged]_vars

\* C19: fetch_cpap_pressure returns the pressure stored in now when a row
\* matches the request's MRN or room number; without such a row it returns
\* the request's currcpap when that is given and valid, "0.0" otherwise; no
\* table changes.
C19_FetchPressure ==
    [][Handles("fetch_cpap_pressure") =>
          LET mrn == validate_mrn(request'.mrn).val
              room == validate_room_number(request'.room_number).val
              rows == RowsWithMrnOrRoom(now, mrn, room)
              currcpap == validate_cpap_pressure(request'.currcpap).val
          IN  /\ TablesUnchanged
              /\ response'.status = 200
              /\ IF rows # {}
                 THEN \E i \in rows :
                         response'.body.cpap_pressure = now[i].currcpap
                 ELSE IF currcpap # PyNone
                 THEN response'.body.cpap_pressure = currcpap
                 ELSE response'.body.cpap_pressure = DefaultPressure]_vars

\* C20: send_cpap(room_number, cpap) sets currcpap to cpap in the rows of now
\* with that room number; every other row, every other column of those rows
\* and table entries stay as they are.
C20_SendCpapFrame ==
    [][(Handles("send_cpap") /\ response'.status = 200) =>
          LET room == Item(request'.in_json, "room_number")
              cpap == Item(request'.in_json, "cpap")
          IN  /\ entries' = entries
              /\ Len(now') = Len(now)
              /\ \A i \in 1..Len(now) :
                    IF now[i].room_number = room
                    THEN /\ now'[i].currcpap = cpap
                         /\ \A col \in DOMAIN now[i] \ {"currcpap"} :
                               now'[i][col] = now[i][col]
                    ELSE now'[i] = now[i]]_vars

\* of two rows, the one in the room has the pressure sent, the other one
\* has not
C20_Witness ==
    /\ pc = "responding"
    /\ request.route = "send_cpap"
    /\ response.status = 200
    /\ Len(now) = 2
    /\ \E i, j \in 1..2 :
          /\ now[i].room_number = Item(request.in_json, "room_number")
          /\ now[i].currcpap = Item(request.in_json, "cpap")
          /\ now[j].room_number # now[i].room_number
          /\ now[j].currcpap # now[i].currcpap

\* C25: no two rows of now share an MRN and no two rows share a room number,
\* after any sequence of requests on a table that started that way.
C25_UniqueRows ==
    \A i, j \in 1..Len(now) :
        i # j => /\ now[i].mrn # now[j].mrn
                 /\ now[i].room_number # now[j].room_number

\* C26: every currcpap stored in now is a number from 4 to 25, after any
\* sequence of requests.
C26_StoredInRange ==
    \A i \in 1..Len(now) :
        /\ now[i].currcpap.t = "float"
        /\ now[i].currcpap.x.k = "fin"
        /\ InRange(now[i].currcpap.x.v)

\* C29: upload_data is all or nothing: an answer with an error status leaves
\* both tables as they were; an answer of success added exactly one row to
\* entries and now has a row with the uploaded MRN and room number.
C29_UploadAtomic ==
    [][Handles("upload_data") =>
          IF response'.status # 200
          THEN TablesUnchanged
          ELSE /\ Len(entries') = Len(entries) + 1
               /\ SubSeq(entries', 1, Len(entries)) = entries
               /\ \E i \in 1..Len(now') :
                     /\ now'[i].mrn = validate_mrn(request'.mrn).val
                     /\ now'[i].room_number =
                           validate_room_number(request'.room_number).val]_vars

\* ------------------------------------------------------------ patient_gui.py

\* The window of patient_gui.py: the dictionary patient_info, the widgets
\* its callbacks configure, and the callbacks root.after() has pending.  The
\* server and the user are the environment: every request gets one of the
\* answers the server or the network can give, every dialog either reply.
\* The texts of name, MRN and room number only travel to the server and are
\* left out.

DigitChar(d) == CHOOSE c \in Digits : DigitVal(c) = d

\* str(n) of an integer n >= 0
RECURSIVE IntStr(_)
IntStr(n) ==
    IF n < Tenths THEN <<DigitChar(n)>>
    ELSE Append(IntStr(n \div Tenths), DigitChar(n % Tenths))

\* str(x) of a finite float x >= 0 with one decimal: "10.5"
FloatStr(x) ==
    IntStr(x.v \div Tenths) \o <<".", DigitChar(x.v % Tenths)>>

\* the state of the window, as a callback leaves it
Gui(pi, w, r, l) == [patient_info |-> pi, widgets |-> w, root |-> r, last |-> l]

\* what a callback did: the value it returned or the exception that left it,
\* the titles of the message boxes it showed, whether the server accepted an
\* upload, whether /fetch_cpap_pressure was polled by periodic_cpap_update
Did(handler, ret, exc, boxes, accepted, polled) ==
    [handler |-> handler, ret |-> ret, exc |-> exc, boxes |-> boxes,
     accepted |-> accepted, polled |-> polled]

\* root.after(ms, func): the callback is pending under a new identifier
After(r, func) ==
    [r EXCEPT !.after_calls = @ \cup {[id |-> r.next_id, func |-> func]},
              !.next_id = @ + 1]

\* root.after_cancel(id): a pending callback with that identifier is removed
AfterCancel(r, id) ==
    [r EXCEPT !.after_calls = {c \in @ : c.id # id}]

Pending(r, func) == {c \in r.after_calls : c.func = func}

\* ------------------------------------------------------------ check_cpap_pressure

Checked(exc, ret, pi, boxes) ==
    [exc |-> exc, ret |-> ret, pi |-> pi, boxes |-> boxes]

\* ans is the answer to the POST of /fetch_cpap_pressure, confirm the reply
\* to askyesno
check_cpap_pressure(pi, ans, confirm) ==
    IF ans.kind \in {"network", "http", "error"}
    THEN Checked("none", "False", pi, {"Error"})
    ELSE LET db_cpap_pressure == ans.p
             entered_cpap_pressure == float(PyStr(pi.cpap_pressure))
         IN  IF pi.cpap_pressure = <<>>
             THEN Checked("none", "True",
                          [pi EXCEPT !.cpap_pressure =
                                        FloatStr(db_cpap_pressure)], {})
             ELSE IF entered_cpap_pressure.exc # "none"
             THEN Checked(entered_cpap_pressure.exc, "None", pi, {})
             ELSE IF entered_cpap_pressure.val # db_cpap_pressure
             THEN Checked("none", "True",
                          IF confirm
                          THEN [pi EXCEPT !.cpap_pressure =
                                             FloatStr(db_cpap_pressure)]
                          ELSE pi,
                          {"CPAP Pressure Mismatch"})
             ELSE Checked("none", "True", pi, {})

\* ------------------------------------------------------------ periodic_cpap_update

Polled(exc, pi, boxes, polled) ==
    [exc |-> exc, pi |-> pi, boxes |-> boxes, polled |-> polled]

\* the body of periodic_cpap_update before root.after(): the poll and what
\* it does to the CPAP pressure field
poll_cpap_pressure(pi, ans, confirm) ==
    IF ~(pi.mrn_locked /\ pi.room_number_locked)
    THEN Polled("none", pi, {}, FALSE)
    ELSE IF ans.kind \in {"network", "http", "error"}
    THEN Polled("none", pi, {"Error"}, TRUE)
    ELSE LET db_cpap_pressure == ans.p
             entered_cpap_pressure == float(PyStr(pi.cpap_pressure))
         IN  IF entered_cpap_pressure.exc # "none"
             THEN Polled(entered_cpap_pressure.exc, pi, {}, TRUE)
             ELSE IF entered_cpap_pressure.val # db_cpap_pressure
             THEN Polled("none",
                         IF confirm
                         THEN [pi EXCEPT !.cpap_pressure =
                                            FloatStr(db_cpap_pressure)]
                         ELSE pi,
                         {"CPAP Pressure Update"}, TRUE)
             ELSE Polled("none", pi, {}, TRUE)

\* periodic_cpap_update run by the event loop: the pending callback is
\* taken, the poll is made, and root.after() schedules the next run unless
\* an exception left the function before
periodic_cpap_update(pi, w, r, call, ans, confirm) ==
    LET fired == [r EXCEPT !.after_calls = @ \ {call}]
        poll == poll_cpap_pressure(pi, ans, confirm)
    IN  Gui(poll.pi, w,
            IF poll.exc = "none" THEN After(fired, "periodic_cpap_update")
            ELSE fired,
            Did("periodic_cpap_update", "None", poll.exc, poll.boxes, FALSE,
                poll.polled))

\* ------------------------------------------------------------ upload_data (patient GUI)

\* the answer of /upload_data the client sees: the server validates the
\* currcpap it is sent and answers 416 when that is not a pressure
ServerUploadAnswer(up, currcpap) ==
    IF up = "accepted" /\ validate_cpap_pressure(PyStr(currcpap)).val = PyNone
    THEN "http"
    ELSE up

\* an answer of status 200 is taken as a success however its body reads
UploadSucceededWhateverBody(answer) == answer \in {"accepted", "error"}

\* the upload went through: status 200 and no key 'error' in the body
UploadSucceeded(answer) == answer = "accepted"

\* lines 239-244: the entries are disabled, the locks set, the buttons
\* switched
LockedInfo(pi) ==
    [pi EXCEPT !.mrn_locked = TRUE, !.room_number_locked = TRUE]

LockedWidgets(w) ==
    [w EXCEPT !.mrn_entry = "disabled", !.room_number_entry = "disabled",
              !.upload_button = "disabled", !.update_button = "normal"]

\* lines 208-247: the POST of /upload_data and what follows it; boxes are
\* the message boxes shown before
post_upload(pi, w, r, env, boxes) ==
    LET answer == ServerUploadAnswer(env.upload, pi.cpap_pressure)
        accepted == answer = "accepted"
        poll == poll_cpap_pressure(LockedInfo(pi), env.poll, env.confirm_poll)
    IN  IF answer = "network"
        THEN Gui(pi, w, r, Did("upload_data", "None", "none",
                               boxes \cup {"Error"}, accepted, FALSE))
        ELSE IF answer = "http"
        THEN Gui(pi, w, r, Did("upload_data", "None", "none",
                               boxes \cup {"Upload Failed"}, accepted, FALSE))
        ELSE IF answer = "http_html"
        THEN Gui(pi, w, r, Did("upload_data", "None", "JSONDecodeError",
                               boxes, accepted, FALSE))
        ELSE IF ~UploadSucceeded(answer)
        THEN Gui(pi, w, r, Did("upload_data", "False", "none",
                               boxes \cup {"Error"}, accepted, FALSE))
        ELSE IF poll.exc # "none"
        THEN Gui(poll.pi, LockedWidgets(w), r,
                 Did("upload_data", "None", poll.exc,
                     boxes \cup {"Success"} \cup poll.boxes, accepted,
                     poll.polled))
        ELSE Gui(poll.pi, LockedWidgets(w), After(r, "periodic_cpap_update"),
                 Did("upload_data", "True", "none",
                     boxes \cup {"Success"} \cup poll.boxes, accepted,
                     poll.polled))

\* upload_data of patient_gui.py.  env holds the answers of /check_exists,
\* /fetch_cpap_pressure and /upload_data, the answer to the poll that
\* follows a success, and the replies to the three dialogs
gui_upload_data(pi, w, r, env) ==
    LET chk == check_cpap_pressure(pi, env.fetch, env.confirm_pressure)
    IN  IF env.exists = "network"
        THEN Gui(pi, w, r, Did("upload_data", "None", "none", {"Error"},
                               FALSE, FALSE))
        ELSE IF env.exists = "http"
        THEN Gui(pi, w, r, Did("upload_data", "None", "none",
                               {"Upload Failed"}, FALSE, FALSE))
        ELSE IF env.exists = "http_html"
        THEN Gui(pi, w, r, Did("upload_data", "None", "JSONDecodeError", {},
                               FALSE, FALSE))
        ELSE IF env.exists = "new"
        THEN post_upload(pi, w, r, env, {})
        ELSE IF ~env.confirm
        THEN Gui(pi, w, r, Did("upload_data", "False", "none",
                               {"Confirmation", "Info"}, FALSE, FALSE))
        ELSE IF chk.exc # "none"
        THEN Gui(pi, w, r, Did("upload_data", "None", chk.exc,
                               {"Confirmation"}, FALSE, FALSE))
        ELSE IF chk.ret = "False"
        THEN Gui(pi, w, r, Did("upload_data", "False", "none",
                               {"Confirmation"} \cup chk.boxes, FALSE, FALSE))
        ELSE post_upload(chk.pi, w, r, env, {"Confirmation"} \cup chk.boxes)

\* ------------------------------------------------------------ update_data

\* nothing of the window changes; answer is what /update_patient_info gave
update_data(pi, w, r, answer) ==
    CASE answer = "ok" ->
            Gui(pi, w, r, Did("update_data", "True", "none", {"Success"},
                              FALSE, FALSE))
      [] answer = "ok_html" ->
            Gui(pi, w, r, Did("update_data", "True", "none", {"Error"},
                              FALSE, FALSE))
      [] answer \in {"http", "http_html"} ->
            Gui(pi, w, r, Did("update_data", "False", "none",
                              {"Update Failed"}, FALSE, FALSE))
      [] answer = "network" ->
            Gui(pi, w, r, Did("update_data", "False", "none", {"Error"},
                              FALSE, FALSE))

\* ------------------------------------------------------------ patient_handler

\* every button enabled whatever the locks
ButtonsUnlocked(pi, w) ==
    [w EXCEPT !.upload_button = "normal", !.update_button = "normal"]

\* lines 362-368: Upload while MRN and room number are open, Update once
\* they are locked
ButtonsForLocks(pi, w) ==
    IF ~pi.mrn_locked /\ ~pi.room_number_locked
    THEN [w EXCEPT !.upload_button = "normal", !.update_button = "disabled"]
    ELSE [w EXCEPT !.upload_button = "disabled", !.update_button = "normal"]

\* selected: whether the file dialog returned a path; processed: the record
\* process_cpap_data returned, NoMetrics for None
patient_handler(pi, w, r, selected, processed) ==
    IF ~selected
    THEN Gui(pi, [w EXCEPT !.file_selected_var = FALSE,
                           !.file_selected_checkmark = "x"], r,
             Did("patient_handler", "None", "none", {}, FALSE, FALSE))
    ELSE IF processed = NoMetrics
    THEN Gui(pi, w, r,
             Did("patient_handler", "None", "none", {"Error"}, FALSE, FALSE))
    ELSE Gui([pi EXCEPT !.metrics = processed],
             [ButtonsForLocks(pi, w) EXCEPT !.file_selected_var = TRUE,
                                            !.file_selected_checkmark = "check"],
             r,
             Did("patient_handler", "None", "none", {}, FALSE, FALSE))

\* ------------------------------------------------------------ reset_fields

DefaultCpap == <<"0", ".", "0">>

\* root.after_id is the callback update_checkmark scheduled last
reset_fields(pi, w, r) ==
    Gui([pi EXCEPT !.cpap_pressure = DefaultCpap, !.mrn_locked = FALSE,
                   !.room_number_locked = FALSE],
        [w EXCEPT !.mrn_entry = "normal", !.room_number_entry = "normal",
                  !.upload_button = "disabled", !.update_button = "disabled",
                  !.file_selected_var = FALSE,
                  !.file_selected_checkmark = "x"],
        AfterCancel(r, r.after_id),
        Did("reset_fields", "None", "none", {}, FALSE, FALSE))

\* ------------------------------------------------------------ update_checkmark

\* run by the event loop every 100 ms: the mark follows file_selected_var and
\* the next run is scheduled, its identifier kept in root.after_id
update_checkmark(pi, w, r, call) ==
    LET fired == [r EXCEPT !.after_calls = @ \ {call}]
    IN  Gui(pi,
            [w EXCEPT !.file_selected_checkmark =
                         IF w.file_selected_var THEN "check" ELSE "x"],
            [After(fired, "update_checkmark") EXCEPT !.after_id = r.next_id],
            Did("update_checkmark", "None", "none", {}, FALSE, FALSE))

\* ------------------------------------------------------------ on_closing

\* root.destroy() takes the pending callbacks with the window
on_closing(pi, w, r, confirm) ==
    IF confirm
    THEN Gui(pi, w, [r EXCEPT !.after_calls = {}, !.exists = FALSE],
             Did("on_closing", "None", "none", {"Quit"}, FALSE, FALSE))
    ELSE Gui(pi, w, r,
             Did("on_closing", "None", "none", {"Quit"}, FALSE, FALSE))

\* ------------------------------------------------------------ the patient GUI runs

\* A session of the patient GUI from main() on.  A callback runs to its end
\* before the next one starts.  Identifiers of after() are never used twice;
\* the session stops scheduling when MaxAfterIds of them were handed out.
MaxAfterIds == 4

\* what the user may type into the CPAP pressure entry: the default, a
\* pressure, nothing, and a text that is no number
CpapTexts == {DefaultCpap, <<"1", "0", ".", "5">>, <<>>, <<"x">>}

\* the pressures table now may hold for the patient
GuiStoredPressures == {Fin(105), Fin(120)}

ExistsAnswers == {"network", "http", "http_html", "new", "mrn", "room"}

\* /fetch_cpap_pressure answers with a pressure or with an error status
FetchAnswers ==
    {[kind |-> k, p |-> Fin(0)] : k \in {"network", "http"}}
        \cup {[kind |-> "pressure", p |-> x] : x \in GuiStoredPressures}

UploadAnswers == {"network", "http", "http_html", "error", "accepted"}

UpdateAnswers == {"network", "http", "http_html", "ok", "ok_html"}

NoFetch == [kind |-> "network", p |-> Fin(0)]

\* the environments of one run of upload_data; what a run cannot reach is
\* held at one value
UploadEnvs ==
    {env \in [exists : ExistsAnswers, confirm : BOOLEAN,
              fetch : FetchAnswers, confirm_pressure : BOOLEAN,
              upload : UploadAnswers, poll : FetchAnswers,
              confirm_poll : BOOLEAN] :
        LET checks == env.exists \in {"mrn", "room"} /\ env.confirm
            posts == \/ env.exists = "new"
                     \/ checks /\ env.fetch.kind = "pressure"
            polls == posts /\ env.upload \in {"accepted", "error"}
        IN  /\ env.exists \in {"mrn", "room"} \/ env.confirm
            /\ checks \/ (env.fetch = NoFetch /\ env.confirm_pressure)
            /\ env.fetch.kind = "pressure" \/ env.confirm_pressure
            /\ posts \/ env.upload = "network"
            /\ polls \/ (env.poll = NoFetch /\ env.confirm_poll)
            /\ env.poll.kind = "pressure" \/ env.confirm_poll}

\* the record process_cpap_data returns for a file it can analyse
GuiSeries == <<<<0, Num(0)>>, <<TicksPerSec, Num(5)>>>>

GuiMetrics ==
    MetricsWithSeries(
        calculate_metrics(GuiSeries, <<>>, apnea_events(<<>>),
                          calculate_leakage(GuiSeries)),
        GuiSeries, GuiSeries)

ProcessResults == {NoMetrics, GuiMetrics}

\* main(): the variables, the disabled buttons, the first update_checkmark
InitGui ==
    /\ pc = "mainloop"
    /\ caller = "patient_gui"
    /\ patient_info = [cpap_pressure |-> DefaultCpap, mrn_locked |-> FALSE,
                       room_number_locked |-> FALSE, metrics |-> NoMetrics]
    /\ widgets = [mrn_entry |-> "normal", room_number_entry |-> "normal",
                  upload_button |-> "disabled", update_button |-> "disabled",
                  file_selected_var |-> FALSE,
                  file_selected_checkmark |-> "check"]
    /\ root = [exists |-> TRUE,
               after_calls |-> {[id |-> 1, func |-> "update_checkmark"]},
               after_id |-> 1, next_id |-> 2]
    /\ last = Did("main", "None", "none", {}, FALSE, FALSE)
    /\ data = <<>>
    /\ flow_rate = <<>>
    /\ filtered_flow_rate = <<>>
    /\ peak_times = <<>>
    /\ apneas = 0
    /\ leakage = Num(0)
    /\ metrics = NoMetrics
    /\ log = <<>>
    /\ file = <<>>
    /\ now = <<>>
    /\ entries = <<>>
    /\ request = NoRequest
    /\ response = NoResponse
    /\ loggers = NoHandlers

\* the window after a callback
Shows(g) ==
    /\ patient_info' = g.patient_info
    /\ widgets' = g.widgets
    /\ root' = g.root
    /\ last' = g.last
    /\ UNCHANGED <<caller, data, flow_rate, filtered_flow_rate, peak_times,
                   apneas, leakage, metrics, log, file, now, entries, request,
                   response, loggers>>

\* the user picks a file, or closes the dialog
PatientHandler ==
    /\ pc = "mainloop"
    /\ \E selected \in BOOLEAN, processed \in ProcessResults :
          /\ selected \/ processed = NoMetrics
          /\ Shows(patient_handler(patient_info, widgets, root, selected,
                                   processed))
    /\ UNCHANGED pc

\* the user presses Upload Data
GuiUploadData ==
    /\ pc = "mainloop"
    /\ widgets.upload_button = "normal"
    /\ root.next_id <= MaxAfterIds
    /\ \E env \in UploadEnvs :
          Shows(gui_upload_data(patient_info, widgets, root, env))
    /\ UNCHANGED pc

\* the user presses Update Data
UpdateData ==
    /\ pc = "mainloop"
    /\ widgets.update_button = "normal"
    /\ \E answer \in UpdateAnswers :
          Shows(update_data(patient_info, widgets, root, answer))
    /\ UNCHANGED pc

\* the user presses Reset
ResetFields ==
    /\ pc = "mainloop"
    /\ Shows(reset_fields(patient_info, widgets, root))
    /\ UNCHANGED pc

\* the user types into the CPAP pressure entry
TypeCpapPressure ==
    /\ pc = "mainloop"
    /\ \E text \in CpapTexts \ {patient_info.cpap_pressure} :
          Shows(Gui([patient_info EXCEPT !.cpap_pressure = text], widgets,
                    root, Did("entry", "None", "none", {}, FALSE, FALSE)))
    /\ UNCHANGED pc

\* 15 s are over for a pending periodic_cpap_update
PeriodicCpapUpdate ==
    /\ pc = "mainloop"
    /\ root.next_id <= MaxAfterIds
    /\ \E call \in Pending(root, "periodic_cpap_update") :
          \E ans \in FetchAnswers, confirm \in BOOLEAN :
              /\ ans.kind = "pressure" \/ confirm
              /\ Shows(periodic_cpap_update(patient_info, widgets, root, call,
                                            ans, confirm))
    /\ UNCHANGED pc

\* 100 ms are over for the pending update_checkmark
UpdateCheckmark ==
    /\ pc = "mainloop"
    /\ root.next_id <= MaxAfterIds
    /\ \E call \in Pending(root, "update_checkmark") :
          Shows(update_checkmark(patient_info, widgets, root, call))
    /\ UNCHANGED pc

\* the user closes the window and is asked whether to quit
OnClosing ==
    /\ pc = "mainloop"
    /\ \E confirm \in BOOLEAN :
          /\ Shows(on_closing(patient_info, widgets, root, confirm))
          /\ pc' = IF confirm THEN "closed" ELSE pc

NextGui ==
    \/ PatientHandler
    \/ GuiUploadData
    \/ UpdateData
    \/ ResetFields
    \/ TypeCpapPressure
    \/ PeriodicCpapUpdate
    \/ UpdateCheckmark
    \/ OnClosing

SpecGui == InitGui /\ [][NextGui]_vars

\* a step in which the callback runs
Ran(handler) == pc = "mainloop" /\ last'.handler = handler

Locked(pi) == pi.mrn_locked /\ pi.room_number_locked

\* C21: reset_fields cancels the periodic CPAP update: when it returns, no
\* periodic_cpap_update callback is pending.
C21_ResetCancelsPeriodic ==
    [][Ran("reset_fields") =>
          Pending(root', "periodic_cpap_update") = {}]_vars

\* C22: every run of periodic_cpap_update by the event loop schedules the
\* next one, whatever the server answers and whatever the CPAP pressure
\* field holds.
C22_PeriodicReschedules ==
    [][Ran("periodic_cpap_update") =>
          \E c \in Pending(root', "periodic_cpap_update") :
              c.id = root.next_id]_vars

\* C23: upload_data returns True only when the server accepted the upload,
\* and then MRN and room number are locked, Upload is disabled and Update
\* enabled; on every other path the locks and both buttons stay as they
\* were and no success is reported.
C23_UploadOutcome ==
    [][Ran("upload_data") =>
          IF last'.ret = "True"
          THEN /\ last'.accepted
               /\ Locked(patient_info')
               /\ widgets'.mrn_entry = "disabled"
               /\ widgets'.room_number_entry = "disabled"
               /\ widgets'.upload_button = "disabled"
               /\ widgets'.update_button = "normal"
          ELSE /\ patient_info'.mrn_locked = patient_info.mrn_locked
               /\ patient_info'.room_number_locked
                     = patient_info.room_number_locked
               /\ widgets'.upload_button = widgets.upload_button
               /\ widgets'.update_button = widgets.update_button
               /\ "Success" \notin last'.boxes]_vars

\* an upload the server accepted after the user confirmed the MRN and took
\* over the pressure of the database
C23_Witness ==
    /\ pc = "mainloop"
    /\ last.handler = "upload_data"
    /\ last.ret = "True"
    /\ last.accepted
    /\ "CPAP Pressure Mismatch" \in last.boxes
    /\ Locked(patient_info)
    /\ widgets.update_button = "normal"

\* C27: at most one periodic_cpap_update callback is pending at any time.
C27_OnePeriodic ==
    Cardinality(Pending(root, "periodic_cpap_update")) <= 1

\* C28: Upload and Update are never both enabled; Upload is enabled only
\* while MRN and room number are unlocked, Update only while they are
\* locked; while either is enabled patient_info holds the metrics record of
\* a file that was processed.
C28_Buttons ==
    /\ ~(widgets.upload_button = "normal" /\ widgets.update_button = "normal")
    /\ widgets.upload_button = "normal" =>
          ~patient_info.mrn_locked /\ ~patient_info.room_number_locked
    /\ widgets.update_button = "normal" => Locked(patient_info)
    /\ (widgets.upload_button = "normal" \/ widgets.update_button = "normal")
          => patient_info.metrics \in ProcessResults \ {NoMetrics}

\* a file is selected while MRN and room number are locked: Update is
\* enabled, Upload is not
C28_Witness ==
    /\ pc = "mainloop"
    /\ last.handler = "patient_handler"
    /\ widgets.file_selected_var
    /\ Locked(patient_info)
    /\ widgets.update_button = "normal"
    /\ widgets.upload_button = "disabled"

====
